---- MODULE Spec2Model ----
(***************************************************************************)
(* Ratetui: the rate-limit middleware (backend/src/middleware/             *)
(* rateLimiter.js), the Redis connection flag and failure mode             *)
(* (backend/src/config/redis.js) and the rule repository                   *)
(* (backend/src/models/RateLimitRule.js, backend/src/services/             *)
(* ruleService.js).                                                        *)
(*                                                                         *)
(* The counting itself is done by rate-limiter-flexible, which the         *)
(* middleware configures in getRateLimiter: RateLimiterRedis is a fixed    *)
(* window that starts with the first consume of a key and lasts            *)
(* `duration`, with blockDuration, the in-memory block list                *)
(* (inmemoryBlockOnConsumed / inmemoryBlockDuration) and the               *)
(* insuranceLimiter that answers whenever the store raises an error.       *)
(* Time is in whole seconds, so Math.ceil(ms / 1000) is the identity.      *)
(***************************************************************************)
EXTENDS Integers, Sequences, FiniteSets, TLC

\* ------------------------------------------------------------------ bounds
NumWorkers == 2      \* requests (and repository calls) in flight at once
MaxPoints == 2       \* capacities 1..MaxPoints
MaxCount == 3        \* cap on every counter
MaxTime == 180       \* the clock stops here
TimeStep == 60       \* the clock advances in steps of this many seconds
MaxRules == 2        \* rule ids handed out by createRule
MaxAudit == 3        \* no update, enable or disable once the audit log is this long
MaxForwarded == 2    \* addresses in an X-Forwarded-For header
WindowStep == 20     \* the finer step of the clock, for what happens inside a window
MaxClients == 3      \* the ioredis clients connectRedis creates
MaxRefresh == 3      \* the refresh tokens login and refresh hand out
SomeRetries == 3     \* a REDIS_MAX_RETRIES other than the default
MaxConnections == 3  \* sockets open at once
MaxSignals == 3      \* signals delivered to the process
ShutdownStep == 2    \* the step of the clock during shutdown, in seconds

\* ------------------------------------------------------- program constants
InmemoryBlockDuration == 120
DefaultMaxRetries == 10
DefaultRetryDelay == 200
DefaultMaxRetryDelay == 30000
ForceShutdownMs == 10000
DefaultPriority == 100
MaxRequests == 1000000       \* validator: limit.requests at most
MaxWindowSeconds == 86400    \* validator: limit.window at most one day

Workers == 1..NumWorkers
Limiters == {"api", "expensive"}
Identifiers == {"ip1"}
NoIdentifier == "null"        \* getClientIdentifier returned null
KeyGenThrows == "throws"      \* options.customKeyGenerator threw
RuleIds == 1..MaxRules
Names == {"api-limit", "other"}

\* (duration, blockDuration) of the presets api, auth and login
Windows ==
  { [duration |-> 60, blockDuration |-> 0],
    [duration |-> 60, blockDuration |-> 300],
    [duration |-> 900, blockDuration |-> 900] }

\* createRateLimiterMiddleware's config: points, duration, blockDuration
Configs ==
  { [points |-> p, duration |-> w.duration, blockDuration |-> w.blockDuration] :
      p \in 1..MaxPoints, w \in Windows }

VARIABLES
  now,            \* Date.now() in seconds
  failureMode,    \* process.env.REDIS_FAILURE_MODE: "open" or "closed"
  storeUp,        \* whether Redis answers commands
  isConnected,    \* config/redis.js: let isConnected
  cfg,            \* the config each middleware was created with
  rateLimiters,   \* rateLimiter.js: the Map of RateLimiterRedis, by limiter
  memoryLimiter,  \* rateLimiter.js: let memoryLimiter (NoLimiter is null)
  store,          \* Redis counter keys: limiter -> identifier -> [count, exp]
  blocked,        \* each RateLimiterRedis's in-memory block list: expiry
  memory,         \* the memory limiter's keys: identifier -> [count, exp]
  req,            \* the requests in the middleware, one per worker
  last,           \* history: the request answered last, and its answer
  win,            \* history: what happened in the current window of a key
  lastDeny,       \* history: the reset time the last 429 of a key reported
  blockEntries,   \* the identities with a BlockEntry
  allowEntries,   \* the identities with an AllowEntry
  ruleHash,       \* Redis hashes rl:rule:<id>
  nameIndex,      \* Redis keys rl:rule:name:<name>: a rule id, 0 when absent
  rulesSet,       \* Redis set rl:rules
  priorityIndex,  \* Redis sorted set rl:rules:priority: id -> score, -1 absent
  nextId,         \* the next rule id createRule generates
  auditLog,       \* Redis list rl:audit:<date>, newest first
  call,           \* the rule service calls in progress, one per worker
  lastCall,       \* history: the rule service call that returned last
  deletedNames,   \* history: the names of the rules deleted so far
  conflictNames,  \* history: the names a create was refused for so far
  chain,          \* the requests in the router of routes/api.js, one per worker
  served,         \* history: the request the router finished last
  request,        \* the request extractClientIP is called with
  identity,       \* what extractClientIP returned for it
  consumes,       \* history: the recent consumes of a key: when, and admitted or not
  redisClient,    \* config/redis.js: let redisClient (0 is null)
  clients,        \* the ioredis clients created so far: client -> status
  readySince,     \* history: the client emitted 'ready' and no error, close, end since
  quitting,       \* closeRedis calls awaiting quit(): the clients they quit
  blacklist,      \* Redis keys token:blacklist:<jti>
  refreshTokens,  \* Redis keys refresh:<userId>:<refreshToken>
  nextRefresh,    \* the next refresh token generateRefreshToken returns
  expired,        \* the access tokens whose exp has passed
  session,        \* the requests in the admin routes, one per worker
  adminAnswer,    \* history: the admin request answered last
  loggedOut,      \* history: the access tokens logout answered success for
  redeemed,       \* history: refresh token -> the refreshes it succeeded in
  env,            \* process.env: REDIS_MAX_RETRIES, REDIS_RETRY_DELAY, REDIS_MAX_RETRY_DELAY
  retry,          \* the retry strategy: the attempts so far, the delay it returned
  isShuttingDown, \* index.js: let isShuttingDown
  activeConnections, \* index.js: the size of the set activeConnections
  server,         \* the HTTP server: listening, closing or closed
  sinceSignal,    \* seconds since shutdown armed its timers
  exitCode,       \* the code the process exited with, Null while it runs
  signals,        \* history: the SIGTERM and SIGINT delivered
  shutdowns       \* history: the times shutdown went past its guard

limiterVars ==
  <<now, failureMode, storeUp, isConnected, cfg, rateLimiters, memoryLimiter,
    store, blocked, memory, req, last, win, lastDeny>>

listVars == <<blockEntries, allowEntries>>

ruleVars ==
  <<ruleHash, nameIndex, rulesSet, priorityIndex, nextId, auditLog, call,
    lastCall, deletedNames, conflictNames>>

chainVars == <<chain, served>>

resolverVars == <<request, identity>>

windowVars == <<consumes>>

connVars == <<redisClient, clients, readySince, quitting>>

authVars ==
  <<blacklist, refreshTokens, nextRefresh, expired, session, adminAnswer, loggedOut,
    redeemed>>

retryVars == <<env, retry>>

shutdownVars ==
  <<isShuttingDown, activeConnections, server, sinceSignal, exitCode, signals,
    shutdowns>>

serviceVars == <<connVars, authVars, retryVars, shutdownVars>>

vars ==
  <<limiterVars, listVars, ruleVars, chainVars, resolverVars, windowVars,
    serviceVars>>

Max(a, b) == IF a >= b THEN a ELSE b
Min(a, b) == IF a <= b THEN a ELSE b

\* ---------------------------------------------------------------- responses
\* errorHandler.js: ErrorCodes
ErrorCodes ==
  [ RATE_LIMIT_EXCEEDED |-> 429, IP_BLOCKED |-> 403, USER_BLOCKED |-> 403,
    UNAUTHORIZED |-> 401, FORBIDDEN |-> 403, VALIDATION_ERROR |-> 400,
    NOT_FOUND |-> 404, CONFLICT |-> 409, INTERNAL_ERROR |-> 500,
    SERVICE_UNAVAILABLE |-> 503 ]

\* errorHandler.js: createError, answered by errorHandler with the ApiError's
\* statusCode and code
createError(code) ==
  [ code |-> code,
    status |-> IF code \in DOMAIN ErrorCodes THEN ErrorCodes[code]
               ELSE ErrorCodes["INTERNAL_ERROR"] ]

\* next(): the request goes on to the next handler
Admitted == [code |-> "NEXT", status |-> 0]
\* res.status(429).json({error: {code: 'RATE_LIMIT_EXCEEDED', ...}})
RateLimited == [code |-> "RATE_LIMIT_EXCEEDED", status |-> 429]
\* an exception leaving the async handler (an unhandled rejection)
Uncaught == [code |-> "UNCAUGHT", status |-> 0]

\* ------------------------------------------------------ the library's limiter
NoKey == [count |-> 0, exp |-> 0]
NoLimiter == [points |-> 0, duration |-> 0]
NoWindow == [issued |-> 0, admitted |-> 0, clean |-> TRUE]
NoDeny == [armed |-> FALSE, reset |-> 0]

\* getMemoryLimiter: the one RateLimiterMemory, made from the config of the
\* first middleware that asks for it
getMemoryLimiter(c) ==
  IF memoryLimiter = NoLimiter
  THEN [points |-> c.points, duration |-> c.duration]
  ELSE memoryLimiter

\* getRateLimiter: points handed to RateLimiterRedis
LimiterPoints(c) == c.points

\* getRateLimiter: inmemoryBlockOnConsumed: config.points + 1
InmemoryBlockOnConsumed(c) == c.points + 1

\* the fixed-window increment of a key: INCR with an expiry set on creation
Incr(rec, duration) ==
  IF rec.exp > now
  THEN [count |-> rec.count + 1, exp |-> rec.exp]
  ELSE [count |-> 1, exp |-> now + duration]

OverLimit_lax(consumed, points) == consumed > points + 1
OverLimit_strict(consumed, points) == consumed >= points

\* consume rejects when the consumed points exceed the limiter's points
OverLimit(consumed, points) == consumed > points

\* rateLimiter.consume(key) answered by Redis
RedisConsume(l, id) ==
  LET c == cfg[l]
      r1 == Incr(store[l][id], c.duration)
      over == OverLimit(r1.count, LimiterPoints(c))
      doBlock == over /\ c.blockDuration > 0 /\ r1.count <= LimiterPoints(c) + 1
      memBlock == over /\ r1.count >= InmemoryBlockOnConsumed(c)
  IN [ rejected |-> over,
       remainingPoints |-> Max(LimiterPoints(c) - r1.count, 0),
       msBeforeNext |-> IF memBlock THEN InmemoryBlockDuration
                        ELSE IF doBlock THEN c.blockDuration
                        ELSE r1.exp - now,
       rec |-> IF doBlock THEN [count |-> r1.count, exp |-> now + c.blockDuration]
               ELSE r1,
       blockUntil |-> IF memBlock THEN now + InmemoryBlockDuration
                      ELSE blocked[l][id] ]

\* rateLimiter.consume(key) when the store raises an error: the
\* insuranceLimiter (the memory limiter) answers
InsuranceConsume(id) ==
  LET r1 == Incr(memory[id], memoryLimiter.duration)
  IN [ rejected |-> r1.count > memoryLimiter.points,
       remainingPoints |-> Max(memoryLimiter.points - r1.count, 0),
       msBeforeNext |-> r1.exp - now,
       rec |-> r1 ]

\* --------------------------------------------------------- the middleware
StoreAvailabilityCheck_skip(connected, mode) == <<>>

\* the check of isRedisConnected() and getFailureMode(): the responses it
\* gives (none: the request goes on)
StoreAvailabilityCheck(connected, mode) ==
  IF ~connected /\ mode = "closed"
  THEN <<createError("SERVICE_UNAVAILABLE")>>
  ELSE <<>>

CatchOther_rethrow(mode) == Uncaught

\* the catch block for an error that is no RateLimiterRes
CatchOther(mode) ==
  IF mode = "open" THEN Admitted ELSE createError("SERVICE_UNAVAILABLE")

\* setRateLimitHeaders: X-RateLimit-Remaining, X-RateLimit-Reset (as seconds
\* from now) and X-RateLimit-RetryAfter (-1: not set)
setRateLimitHeaders(res) ==
  LET remaining == Max(0, res.remainingPoints)
  IN [ remaining |-> remaining,
       resetIn |-> res.msBeforeNext,
       retryAfter |-> IF remaining = 0 THEN res.msBeforeNext ELSE -1 ]

\* the headers of a 429
DeniedHeaders(ms) == [remaining |-> 0, resetIn |-> ms, retryAfter |-> ms]

NoHeaders == [remaining |-> -1, resetIn |-> -1, retryAfter |-> -1]

\* a worker: idle, or awaiting the answer to consume
IdleReq ==
  [ pc |-> "idle", lim |-> "api", id |-> NoIdentifier, flagDown |-> FALSE,
    retry |-> FALSE, overlap |-> FALSE, listed |-> FALSE ]

\* history: the request the middleware answered last
NoRequest ==
  [ lim |-> "api", id |-> "none", responses |-> <<>>, headers |-> NoHeaders,
    flagDown |-> FALSE, storeDown |-> FALSE, retry |-> FALSE, overlap |-> FALSE,
    via |-> "none", listed |-> FALSE ]

\* history: the identity has a block entry and an allow entry
Listed(id) == id \in blockEntries /\ id \in allowEntries

Awaiting(l, id) == {q \in Workers : req[q].pc = "await" /\ req[q].lim = l /\ req[q].id = id}

\* history of the window of a key: one more request, admitted or not,
\* answered by the store (ok) or not
Count(w, adm, ok) ==
  [ issued |-> Min(w.issued + 1, MaxCount),
    admitted |-> w.admitted + (IF adm THEN 1 ELSE 0),
    clean |-> w.clean /\ ok ]

NoteWin(l, id, adm, ok) ==
  IF id \in Identifiers /\ store[l][id].exp > now
  THEN [win EXCEPT ![l][id] = Count(@, adm, ok)]
  ELSE win

\* no counter may pass MaxCount
BelowCap(l, id) ==
  /\ store[l][id].count + Cardinality(Awaiting(l, id)) < MaxCount
  /\ memory[id].count + Cardinality({q \in Workers : req[q].pc = "await" /\ req[q].id = id})
       < MaxCount

\* The handler up to `await rateLimiter.consume(key)`: the availability
\* check, the identifier, getRateLimiter and consume's look at the in-memory
\* block list.  (Workers are interchangeable: the lowest idle one is taken.)
Begin(p, l, ident) ==
  /\ req[p].pc = "idle"
  /\ \A q \in Workers : q < p => req[q].pc # "idle"
  /\ ident \in Identifiers => BelowCap(l, ident)
  /\ LET gate == StoreAvailabilityCheck(isConnected, failureMode)
         answered == [NoRequest EXCEPT !.lim = l, !.id = ident,
                                       !.flagDown = ~isConnected, !.storeDown = ~storeUp,
                                       !.listed = Listed(ident)]
         left == IF ident \in Identifiers THEN blocked[l][ident] - now ELSE 0
     IN
     IF gate # <<>> THEN
       /\ last' = [answered EXCEPT !.responses = gate]
       /\ win' = NoteWin(l, ident, FALSE, FALSE)
       /\ UNCHANGED <<req, rateLimiters, memoryLimiter, lastDeny>>
     ELSE IF ident = KeyGenThrows THEN
       /\ last' = [answered EXCEPT !.responses = <<CatchOther(failureMode)>>]
       /\ UNCHANGED <<req, rateLimiters, memoryLimiter, win, lastDeny>>
     ELSE IF ident = NoIdentifier THEN
       /\ last' = [answered EXCEPT !.responses = <<Admitted>>]
       /\ UNCHANGED <<req, rateLimiters, memoryLimiter, win, lastDeny>>
     ELSE
       /\ rateLimiters' = rateLimiters \cup {l}
       /\ memoryLimiter' = IF l \in rateLimiters THEN memoryLimiter
                           ELSE getMemoryLimiter(cfg[l])
       /\ IF left > 0 THEN
            /\ last' = [answered EXCEPT !.responses = <<RateLimited>>,
                                        !.headers = DeniedHeaders(left),
                                        !.via = "blocked"]
            /\ win' = NoteWin(l, ident, FALSE, TRUE)
            /\ lastDeny' = [lastDeny EXCEPT ![l][ident] =
                              IF isConnected /\ storeUp
                              THEN [armed |-> TRUE, reset |-> now + left]
                              ELSE NoDeny]
            /\ req' = req
          ELSE
            /\ req' = [q \in Workers |->
                        IF q = p
                        THEN [ pc |-> "await", lim |-> l, id |-> ident,
                               flagDown |-> ~isConnected,
                               retry |-> /\ lastDeny[l][ident].armed
                                         /\ now > lastDeny[l][ident].reset
                                         /\ Awaiting(l, ident) = {},
                               overlap |-> Awaiting(l, ident) # {},
                               listed |-> Listed(ident) ]
                        ELSE IF q \in Awaiting(l, ident)
                        THEN [req[q] EXCEPT !.retry = FALSE, !.overlap = TRUE]
                        ELSE req[q]]
            /\ lastDeny' = [lastDeny EXCEPT ![l][ident] = NoDeny]
            /\ UNCHANGED <<win, last>>
  /\ UNCHANGED <<now, failureMode, storeUp, isConnected, cfg, store, blocked, memory>>
  /\ UNCHANGED <<listVars, ruleVars, resolverVars, serviceVars>>

\* The end of `await rateLimiter.consume(key)` and the rest of the handler.
\* Redis runs the increment atomically and answers, or the command fails (an
\* error, or no answer within the command timeout, in which case Redis may
\* have applied the increment or not) and the insurance limiter answers.
Reply(p, answered, applied) ==
  /\ req[p].pc = "await"
  /\ LET l == req[p].lim
         id == req[p].id
         res == IF answered THEN RedisConsume(l, id) ELSE InsuranceConsume(id)
         fresh == store[l][id].exp <= now
         healthy == storeUp /\ ~req[p].flagDown
     IN
     /\ last' = [ lim |-> l, id |-> id,
                  responses |-> <<IF res.rejected THEN RateLimited ELSE Admitted>>,
                  headers |-> IF res.rejected THEN DeniedHeaders(res.msBeforeNext)
                              ELSE setRateLimitHeaders(res),
                  flagDown |-> req[p].flagDown, storeDown |-> ~storeUp,
                  retry |-> req[p].retry, overlap |-> req[p].overlap,
                  via |-> IF answered THEN "redis" ELSE "memory",
                  listed |-> req[p].listed ]
     /\ req' = [req EXCEPT ![p] = IdleReq]
     /\ store' = IF applied THEN [store EXCEPT ![l][id] = RedisConsume(l, id).rec]
                 ELSE store
     /\ IF answered THEN
          /\ blocked' = [blocked EXCEPT ![l][id] = res.blockUntil]
          /\ win' = [win EXCEPT ![l][id] =
                       Count(IF fresh THEN NoWindow ELSE @, ~res.rejected, TRUE)]
          /\ memory' = memory
        ELSE
          /\ memory' = [memory EXCEPT ![id] = res.rec]
          /\ win' = NoteWin(l, id, ~res.rejected, FALSE)
          /\ blocked' = blocked
     /\ lastDeny' = [lastDeny EXCEPT ![l][id] =
                       IF ~res.rejected THEN @
                       ELSE IF healthy /\ answered
                       THEN [armed |-> TRUE, reset |-> now + res.msBeforeNext]
                       ELSE NoDeny]
  /\ UNCHANGED <<now, failureMode, storeUp, isConnected, cfg, rateLimiters, memoryLimiter>>
  /\ UNCHANGED <<listVars, ruleVars, resolverVars, serviceVars>>

\* The store's answer to consume: Redis answers, or raises an error at once.
StoreReply(p) == Reply(p, storeUp, storeUp)

\* The round trip to a reachable store exceeds commandTimeout: ioredis
\* rejects the command.
CommandTimeout(p) ==
  /\ storeUp /\ isConnected
  /\ \E applied \in BOOLEAN : Reply(p, FALSE, applied)

\* a key is gone once its expiry has come
Expire(rec, t) == IF rec.exp <= t THEN NoKey ELSE rec

\* d seconds pass; Redis and the limiters drop what has expired.  A request
\* is answered within the request timeout (index.js: requestTimeout(30000)),
\* so none is in the middleware across a step of the clock.
Pass(d) ==
  /\ now + d <= MaxTime
  /\ \A p \in Workers : req[p].pc = "idle" /\ chain[p].pc = "idle"
  /\ now' = now + d
  /\ store' = [l \in Limiters |-> [i \in Identifiers |-> Expire(store[l][i], now + d)]]
  /\ memory' = [i \in Identifiers |-> Expire(memory[i], now + d)]
  /\ blocked' = [l \in Limiters |-> [i \in Identifiers |->
                   IF blocked[l][i] <= now + d THEN 0 ELSE blocked[l][i]]]
  /\ win' = [l \in Limiters |-> [i \in Identifiers |->
               IF store[l][i].exp <= now + d THEN NoWindow ELSE win[l][i]]]
  /\ last' = NoRequest
  /\ UNCHANGED <<failureMode, storeUp, isConnected, cfg, rateLimiters,
                 memoryLimiter, req, lastDeny>>
  /\ UNCHANGED <<listVars, ruleVars, chainVars, resolverVars, serviceVars>>

\* the clock advances by one step
Tick == Pass(TimeStep) /\ UNCHANGED windowVars

\* history: one more consume of the key, now
Consumed(l, id, adm) ==
  [consumes EXCEPT ![l][id] = Append(@, [at |-> now, admitted |-> adm])]

\* history: the consumes at or after the start of the window (of the
\* partition of time into windows of `duration`) before the one t is in
Recent(seq, t, duration) ==
  SelectSeq(seq, LAMBDA e : e.at >= ((t \div duration) - 1) * duration)

\* a request of the client comes to the api limiter
Request(p) ==
  /\ Begin(p, "api", "ip1")
  /\ UNCHANGED <<chainVars, resolverVars, serviceVars, windowVars>>

\* the store answers the consume
Consume(p) ==
  /\ StoreReply(p)
  /\ consumes' = Consumed(req[p].lim, req[p].id, last'.responses = <<Admitted>>)
  /\ UNCHANGED <<chainVars, resolverVars, serviceVars>>

\* part of a window passes
Elapse ==
  /\ Pass(WindowStep)
  /\ consumes' = [l \in Limiters |-> [i \in Identifiers |->
                    Recent(consumes[l][i], now', cfg[l].duration)]]

\* Redis stops answering / answers again
StoreDown ==
  /\ storeUp
  /\ storeUp' = FALSE
  /\ UNCHANGED <<now, failureMode, isConnected, cfg, rateLimiters, memoryLimiter,
                 store, blocked, memory, req, last, win, lastDeny>>
  /\ UNCHANGED <<listVars, ruleVars, chainVars, windowVars, resolverVars, serviceVars>>

StoreRecover ==
  /\ ~storeUp
  /\ storeUp' = TRUE
  /\ UNCHANGED <<now, failureMode, isConnected, cfg, rateLimiters, memoryLimiter,
                 store, blocked, memory, req, last, win, lastDeny>>
  /\ UNCHANGED <<listVars, ruleVars, chainVars, windowVars, resolverVars, serviceVars>>

\* redisClient.on('close'): isConnected = false
OnClose ==
  /\ ~storeUp /\ isConnected
  /\ isConnected' = FALSE
  /\ UNCHANGED <<now, failureMode, storeUp, cfg, rateLimiters, memoryLimiter,
                 store, blocked, memory, req, last, win, lastDeny>>
  /\ UNCHANGED <<listVars, ruleVars, chainVars, windowVars, resolverVars, serviceVars>>

\* redisClient.on('ready'): isConnected = true
OnReady ==
  /\ storeUp /\ ~isConnected
  /\ isConnected' = TRUE
  /\ UNCHANGED <<now, failureMode, storeUp, cfg, rateLimiters, memoryLimiter,
                 store, blocked, memory, req, last, win, lastDeny>>
  /\ UNCHANGED <<listVars, ruleVars, chainVars, windowVars, resolverVars, serviceVars>>

\* --------------------------------------------------------- the api router
\* routes/api.js: GET /api/data and GET /api/expensive
Routes == {"/data", "/expensive"}

\* the limiters of a route: router.use(rateLimiters.api), then the route's own
Layers(route) ==
  IF route = "/expensive" THEN <<"api", "expensive">> ELSE <<"api">>

\* the route handler's res.json({success: true, ...})
Handled == [code |-> "OK", status |-> 200]

\* a worker of the router: idle, in a middleware ("layer") or about to enter
\* the next one ("dispatch")
IdleChain ==
  [ pc |-> "idle", route |-> "/data", id |-> "none", at |-> 0,
    headers |-> NoHeaders, reports |-> <<>>, incremented |-> {} ]

\* history: the request the router finished last
NoServed ==
  [ route |-> "/data", id |-> "none", responses |-> <<>>, handler |-> FALSE,
    headers |-> NoHeaders, reports |-> <<>>, incremented |-> {} ]

\* res.set(headers): a header is replaced when set again and kept otherwise
\* (X-RateLimit-RetryAfter is set only when nothing remains)
ResSet(old, new) ==
  IF new = NoHeaders THEN old
  ELSE [ remaining |-> new.remaining,
         resetIn |-> new.resetIn,
         retryAfter |-> IF new.retryAfter # -1 THEN new.retryAfter
                        ELSE old.retryAfter ]

Continues_always(response) == TRUE

\* the middleware called next() without an error: the router goes on to the
\* next layer.  After res.status(429).json(...) or next(error) it does not.
Continues(response) == response = Admitted

\* What the router does with the answer of the middleware it ran for the
\* request c of worker p: the next layer, the route handler, or nothing more.
Settle(p, c, answer, counted) ==
  LET l == Layers(c.route)[c.at]
      c1 == [c EXCEPT !.headers = ResSet(@, answer.headers),
                      !.reports = Append(@, [ lim |-> l,
                                              response |-> answer.responses[1],
                                              headers |-> answer.headers ]),
                      !.incremented = IF counted THEN @ \cup {l} ELSE @]
      sent == IF answer.responses[1] = Admitted THEN <<>> ELSE answer.responses
      done == [ route |-> c1.route, id |-> c1.id, responses |-> sent,
                handler |-> FALSE, headers |-> c1.headers,
                reports |-> c1.reports, incremented |-> c1.incremented ]
  IN
  IF Continues(answer.responses[1]) /\ c.at < Len(Layers(c.route)) THEN
    /\ chain' = [chain EXCEPT ![p] = [c1 EXCEPT !.pc = "dispatch", !.at = c.at + 1]]
    /\ served' = served
  ELSE
    /\ chain' = [chain EXCEPT ![p] = IdleChain]
    /\ served' = IF Continues(answer.responses[1])
                 THEN [done EXCEPT !.handler = TRUE,
                                   !.responses = Append(sent, Handled)]
                 ELSE done

\* The request c of worker p enters the middleware of its layer c.at.
Enter(p, c) ==
  /\ Begin(p, Layers(c.route)[c.at], c.id)
  /\ IF req'[p].pc = "await"
     THEN /\ chain' = [chain EXCEPT ![p] = [c EXCEPT !.pc = "layer"]]
          /\ served' = served
     ELSE Settle(p, c, last', FALSE)

\* A request for a route arrives and enters the router-wide limiter.
Arrive(p, route, ident) ==
  /\ chain[p].pc = "idle"
  /\ Enter(p, [IdleChain EXCEPT !.route = route, !.id = ident, !.at = 1])
  /\ UNCHANGED windowVars

\* next(): the router calls the next layer of the route.
Dispatch(p) ==
  /\ chain[p].pc = "dispatch"
  /\ Enter(p, chain[p])
  /\ UNCHANGED windowVars

\* The store answers the consume of the middleware the request is in.
LayerReply(p) ==
  /\ chain[p].pc = "layer"
  /\ StoreReply(p)
  /\ Settle(p, chain[p], last', TRUE)
  /\ UNCHANGED windowVars

\* ------------------------------------------------------------ client identity
\* A header value or address: an IPv4-shaped string a.b.c.d (each part one
\* to three digits), the same behind the prefix ::ffff:, a string that
\* matches the IPv6 pattern of isValidIP (its groups between the colons, as
\* written: fe80::1 is <<"fe80", "", "1">>), any other text, or undefined.
Undefined == [kind |-> "undefined", parts |-> <<>>, text |-> <<>>]
V4(a, b, c, d) == [kind |-> "v4", parts |-> <<a, b, c, d>>, text |-> <<>>]
Mapped(ip) == [ip EXCEPT !.kind = "mapped"]
V6(groups) == [kind |-> "v6", parts |-> <<>>, text |-> groups]
Text(t) == [kind |-> "text", parts |-> <<>>, text |-> <<t>>]

\* return 'unknown'
Unknown == Text("unknown")

\* a TypeError thrown by the function
Thrown == [kind |-> "throw", parts |-> <<>>, text |-> <<"TypeError">>]

\* isValidIP: false for undefined, '' and 'unknown'; an IPv4-shaped string is
\* valid when every part is at most 255; a string matching ipv6Regex is valid
isValidIP(ip) ==
  CASE ip.kind = "v4" -> \A i \in 1..4 : ip.parts[i] <= 255
    [] ip.kind = "v6" -> TRUE
    [] OTHER -> FALSE

\* extractClientIP: the private and local addresses skipped in production
\* (ip.startsWith('127.'), '10.', '192.168.', '172.16.' .. '172.31.',
\* ip === '::1', ip.startsWith('fc00:'), 'fe80:', 'fd00:', ip === '::');
\* the comparison of strings is case-sensitive
IsPrivate(ip) ==
  CASE ip.kind = "v4" ->
         \/ ip.parts[1] \in {127, 10}
         \/ ip.parts[1] = 192 /\ ip.parts[2] = 168
         \/ ip.parts[1] = 172 /\ ip.parts[2] \in 16..31
    [] ip.kind = "v6" ->
         \/ ip.text \in {<<"", "", "1">>, <<"", "", "">>}
         \/ ip.text[1] \in {"fc00", "fe80", "fd00"}
    [] OTHER -> FALSE

\* app.set('trust proxy', process.env.TRUST_PROXY || 'loopback'): the peers
\* Express takes for trusted intermediaries are the loopback addresses
trustProxy(ip) ==
  CASE ip.kind = "v4" -> ip.parts[1] = 127
    [] ip.kind = "v6" -> ip.text = <<"", "", "1">>
    [] OTHER -> FALSE

RECURSIVE FirstForwarded_last(_, _)
FirstForwarded_last(ips, production) ==
  IF ips = <<>> THEN Undefined
  ELSE IF isValidIP(ips[Len(ips)]) /\ ~(production /\ IsPrivate(ips[Len(ips)]))
  THEN ips[Len(ips)]
  ELSE FirstForwarded_last(SubSeq(ips, 1, Len(ips) - 1), production)

FirstForwarded_head(ips, production) ==
  IF ips # <<>> /\ isValidIP(Head(ips)) /\ ~(production /\ IsPrivate(Head(ips)))
  THEN Head(ips)
  ELSE Undefined

\* the loop over the addresses of X-Forwarded-For: the first valid one that
\* is not skipped, Undefined when the loop ends without returning
RECURSIVE FirstForwarded(_, _)
FirstForwarded(ips, production) ==
  IF ips = <<>> THEN Undefined
  ELSE IF isValidIP(Head(ips)) /\ ~(production /\ IsPrivate(Head(ips)))
  THEN Head(ips)
  ELSE FirstForwarded(Tail(ips), production)

\* socketIP.replace(/^::ffff:/, '')
Stripped(ip) == IF ip.kind = "mapped" THEN [ip EXCEPT !.kind = "v4"] ELSE ip

\* an object that may be undefined, with its remoteAddress
NoSocket == [present |-> FALSE, remoteAddress |-> Undefined]
Socket(addr) == [present |-> TRUE, remoteAddress |-> addr]

remoteAddress_strict(r) ==
  IF ~r.socket.present THEN Thrown
  ELSE IF r.socket.remoteAddress # Undefined THEN r.socket.remoteAddress
  ELSE IF ~r.connection.present THEN Thrown
  ELSE r.connection.remoteAddress

\* req.socket?.remoteAddress || req.connection?.remoteAddress
remoteAddress(r) ==
  IF r.socket.present /\ r.socket.remoteAddress # Undefined
  THEN r.socket.remoteAddress
  ELSE IF r.connection.present THEN r.connection.remoteAddress
  ELSE Undefined

extractClientIP_peerFirst(r) ==
  LET forwarded == FirstForwarded(r.forwardedFor, r.production)
      socketIP == remoteAddress(r)
  IN IF forwarded # Undefined THEN forwarded
     ELSE IF isValidIP(r.ip) THEN r.ip
     ELSE IF isValidIP(r.realIP) THEN r.realIP
     ELSE IF isValidIP(r.cfIP) THEN r.cfIP
     ELSE IF isValidIP(r.clientIP) THEN r.clientIP
     ELSE IF socketIP = Thrown THEN Thrown
     ELSE IF socketIP # Undefined /\ isValidIP(Stripped(socketIP)) THEN Stripped(socketIP)
     ELSE Unknown

\* extractClientIP(req): X-Forwarded-For, X-Real-IP, CF-Connecting-IP,
\* X-Client-IP, req.ip, the socket's remote address, 'unknown'
extractClientIP(r) ==
  LET forwarded == FirstForwarded(r.forwardedFor, r.production)
      socketIP == remoteAddress(r)
  IN IF forwarded # Undefined THEN forwarded
     ELSE IF isValidIP(r.realIP) THEN r.realIP
     ELSE IF isValidIP(r.cfIP) THEN r.cfIP
     ELSE IF isValidIP(r.clientIP) THEN r.clientIP
     ELSE IF isValidIP(r.ip) THEN r.ip
     ELSE IF socketIP = Thrown THEN Thrown
     ELSE IF socketIP # Undefined /\ isValidIP(Stripped(socketIP)) THEN Stripped(socketIP)
     ELSE Unknown

\* the test's "completely invalid request": { headers: {} }
NoMetadata ==
  [ forwardedFor |-> <<>>, realIP |-> Undefined, cfIP |-> Undefined,
    clientIP |-> Undefined, ip |-> Undefined, socket |-> NoSocket,
    connection |-> NoSocket, production |-> FALSE ]

\* not yet resolved
Pending == Text("pending")

\* requests: X-Forwarded-For with up to MaxForwarded addresses (two public
\* ones, a private one, the IPv4 and IPv6 link-local ones, a unique local
\* IPv6 one, one out of range, no address at all), the other headers absent,
\* valid or not an address, req.ip absent, a private address or not an
\* address, and the socket and connection undefined or with an address
ForwardedAddresses ==
  { V4(8, 8, 8, 8), V4(1, 2, 3, 4), V4(10, 0, 0, 1), V4(169, 254, 1, 1),
    V6(<<"fe80", "", "1">>), V6(<<"fd12", "", "1">>), V4(999, 1, 1, 1),
    Text("garbage") }
HeaderValues(addr) == {Undefined, addr, Text("garbage")}
PeerValues == HeaderValues(V4(192, 168, 1, 1))
Sockets ==
  { NoSocket, Socket(Undefined), Socket(Mapped(V4(9, 9, 9, 9))),
    Socket(V6(<<"", "", "1">>)), Socket(Text("garbage")) }
Connections == {NoSocket, Socket(V4(7, 7, 7, 7))}
Metadata ==
  [ forwardedFor : UNION {[1..n -> ForwardedAddresses] : n \in 0..MaxForwarded},
    realIP : HeaderValues(V4(203, 0, 113, 2)),
    cfIP : HeaderValues(V4(203, 0, 113, 3)),
    clientIP : HeaderValues(V4(203, 0, 113, 5)),
    ip : PeerValues, socket : Sockets, connection : Connections,
    production : BOOLEAN ]

\* a request arrives (the one before it has been answered)
Receive ==
  /\ identity # Pending
  /\ request = NoMetadata
  /\ request' \in Metadata
  /\ identity' = Pending
  /\ UNCHANGED <<limiterVars, listVars, ruleVars, chainVars, windowVars, serviceVars>>

\* getClientIdentifier(req, 'ip'): extractClientIP(req)
Resolve ==
  /\ identity = Pending
  /\ identity' = extractClientIP(request)
  /\ UNCHANGED request
  /\ UNCHANGED <<limiterVars, listVars, ruleVars, chainVars, windowVars, serviceVars>>

\* the request is answered
Answer ==
  /\ identity # Pending
  /\ request # NoMetadata
  /\ request' = NoMetadata
  /\ identity' = extractClientIP(NoMetadata)
  /\ UNCHANGED <<limiterVars, listVars, ruleVars, chainVars, windowVars, serviceVars>>

\* ----------------------------------------------------- block / allow entries
\* An administrator adds a BlockEntry for an identity.
BlockIdentity(i) ==
  /\ i \notin blockEntries
  /\ blockEntries' = blockEntries \cup {i}
  /\ UNCHANGED <<allowEntries, limiterVars, ruleVars, chainVars, windowVars, resolverVars, serviceVars>>

\* An administrator adds an AllowEntry for an identity.
AllowIdentity(i) ==
  /\ i \notin allowEntries
  /\ allowEntries' = allowEntries \cup {i}
  /\ UNCHANGED <<blockEntries, limiterVars, ruleVars, chainVars, windowVars, resolverVars, serviceVars>>

\* --------------------------------------------------------- rule repository
\* ruleData.target / ruleData.limit left out of the rule data
NoTarget == [type |-> "none", pattern |-> "none"]
\* (a window '<number><unit>' is kept as its number and its unit)
NoLimit == [requests |-> 0, window |-> [num |-> 0, unit |-> "none"]]

\* the fields of the hash rl:rule:<id>; NoRule is the absent (empty) hash
NoRule ==
  [ id |-> 0, name |-> "none", target |-> NoTarget, limit |-> NoLimit,
    priority |-> 0, enabled |-> "false", createdAt |-> 0, updatedAt |-> 0 ]

\* rule data with the defaults of createRule: priority 100, enabled
DefaultData(n) ==
  [ name |-> n, target |-> [type |-> "ip", pattern |-> "10.*"],
    limit |-> [requests |-> 1, window |-> [num |-> 1, unit |-> "h"]],
    priority |-> DefaultPriority, enabled |-> TRUE ]

NoData == [DefaultData("none") EXCEPT !.target = NoTarget, !.limit = NoLimit]

\* createRule: the rule object written by redis.hset
NewRule(id, data) ==
  [ id |-> id, name |-> data.name, target |-> data.target, limit |-> data.limit,
    priority |-> data.priority,
    enabled |-> IF data.enabled THEN "true" ELSE "false",
    createdAt |-> now, updatedAt |-> now ]

\* updateRule's updates: every field undefined
NoUpdates ==
  [target |-> NoTarget, limit |-> NoLimit, priority |-> -1, enabled |-> "undefined"]

\* getAllRules' options: the defaults
NoOptions == [enabledOnly |-> FALSE, sortByPriority |-> FALSE]

\* a worker of the rule service: idle, or at the Redis command it awaits,
\* with the call's arguments and locals; existed, wrote, audits, level,
\* before and scores (the priority index when it was read) are history
IdleCall ==
  [ pc |-> "idle", op |-> "none", name |-> "none", id |-> 0, rid |-> 0,
    data |-> NoData, updates |-> NoUpdates, actor |-> "none",
    opts |-> NoOptions, ids |-> <<>>, rules |-> <<>>, scores |-> <<>>,
    before |-> NoRule, after |-> NoRule,
    existed |-> FALSE, wrote |-> FALSE, audits |-> 0, level |-> "none" ]

\* history: the call of the rule service that returned last, and its result
Finished(c, result) == [c EXCEPT !.pc = "idle", !.rid = 0] @@ ("result" :> result)

NoCall == Finished(IdleCall, "none")

\* history: a rule of that name is stored
NameStored(n) == \E id \in RuleIds : ruleHash[id] # NoRule /\ ruleHash[id].name = n

\* the call returns or throws
Return(p, result) ==
  /\ call' = [call EXCEPT ![p] = IdleCall]
  /\ lastCall' = Finished(call[p], result)
  /\ conflictNames' = IF result = "NameConflict"
                      THEN conflictNames \cup {call[p].name} ELSE conflictNames
  /\ deletedNames' = IF call[p].op = "delete" /\ result = "true"
                     THEN deletedNames \cup {call[p].name} ELSE deletedNames

Goto(p, pc) ==
  /\ call' = [call EXCEPT ![p].pc = pc]
  /\ UNCHANGED <<lastCall, conflictNames, deletedNames>>

Wrote(p, pc) ==
  /\ call' = [call EXCEPT ![p].pc = pc, ![p].wrote = TRUE]
  /\ UNCHANGED <<lastCall, conflictNames, deletedNames>>

\* a Redis command of the call is rejected: the call throws that error
\* (ioredis: maxRetriesPerRequest), what it wrote before stays
Rejected(p) ==
  /\ Return(p, "StoreError")
  /\ UNCHANGED <<ruleHash, nameIndex, rulesSet, priorityIndex, nextId, auditLog>>

\* ruleService.createRule is called with rule data: the check that name,
\* target and limit are there, then getRuleByName is awaited
CreateRuleWith(p, data, actor) ==
  /\ call[p].pc = "idle"
  /\ \A q \in Workers : q < p => call[q].pc # "idle"
  /\ nextId <= MaxRules
  /\ LET started == [IdleCall EXCEPT !.pc = "getRuleByName", !.op = "create",
                                     !.name = data.name, !.data = data,
                                     !.actor = actor,
                                     !.existed = NameStored(data.name)]
     IN IF data.target = NoTarget \/ data.limit = NoLimit
        THEN /\ call' = call
             /\ lastCall' = Finished(started, "Required")
        ELSE /\ call' = [call EXCEPT ![p] = started]
             /\ lastCall' = NoCall
  /\ UNCHANGED <<ruleHash, nameIndex, rulesSet, priorityIndex, nextId, auditLog,
                 deletedNames, conflictNames>>
  /\ UNCHANGED <<limiterVars, listVars, chainVars, windowVars, resolverVars, serviceVars>>

\* ruleService.createRule is called with valid rule data of name n
CreateRule(p, n) == CreateRuleWith(p, DefaultData(n), "admin")

\* ruleService.createRule: getRuleByName's redis.get of the name index
GetRuleByName(p) ==
  /\ call[p].pc = "getRuleByName"
  /\ IF ~isConnected THEN
       /\ Goto(p, "createRule")
       /\ UNCHANGED <<ruleHash, nameIndex, rulesSet, priorityIndex, nextId, auditLog>>
     ELSE IF ~storeUp THEN Rejected(p)
     ELSE
       /\ IF nameIndex[call[p].name] = 0
          THEN Goto(p, "createRule")
          ELSE /\ call' = [call EXCEPT ![p].pc = "getRuleById",
                                       ![p].rid = nameIndex[call[p].name]]
               /\ UNCHANGED <<lastCall, conflictNames, deletedNames>>
       /\ UNCHANGED <<ruleHash, nameIndex, rulesSet, priorityIndex, nextId, auditLog>>
  /\ UNCHANGED <<limiterVars, listVars, chainVars, windowVars, resolverVars, serviceVars>>

\* ruleService.createRule: getRuleByName's getRuleById (redis.hgetall), and
\* the throw when a rule came back
GetRuleById(p) ==
  /\ call[p].pc = "getRuleById"
  /\ IF ~isConnected THEN
       /\ Goto(p, "createRule")
       /\ UNCHANGED <<ruleHash, nameIndex, rulesSet, priorityIndex, nextId, auditLog>>
     ELSE IF ~storeUp THEN Rejected(p)
     ELSE
       /\ IF ruleHash[call[p].rid] = NoRule
          THEN Goto(p, "createRule")
          ELSE Return(p, "NameConflict")
       /\ UNCHANGED <<ruleHash, nameIndex, rulesSet, priorityIndex, nextId, auditLog>>
  /\ UNCHANGED <<limiterVars, listVars, chainVars, windowVars, resolverVars, serviceVars>>

\* RateLimitRule.createRule up to the rule id: the connection check, the
\* redis.get of the name index and the throw when the name is taken
CheckName(p) ==
  /\ call[p].pc = "createRule"
  /\ IF ~isConnected THEN
       /\ Return(p, "StoreRequired")
       /\ nextId' = nextId
     ELSE IF ~storeUp THEN
       /\ Return(p, "StoreError")
       /\ nextId' = nextId
     ELSE IF nameIndex[call[p].name] # 0 THEN
       /\ Return(p, "NameConflict")
       /\ nextId' = nextId
     ELSE
       /\ call' = [call EXCEPT ![p].pc = "hset", ![p].id = nextId]
       /\ nextId' = nextId + 1
       /\ UNCHANGED <<lastCall, conflictNames, deletedNames>>
  /\ UNCHANGED <<ruleHash, nameIndex, rulesSet, priorityIndex, auditLog>>
  /\ UNCHANGED <<limiterVars, listVars, chainVars, windowVars, resolverVars, serviceVars>>

\* RateLimitRule.createRule: redis.hset of the rule
Hset(p) ==
  /\ call[p].pc = "hset"
  /\ IF ~storeUp THEN Rejected(p)
     ELSE
       /\ ruleHash' = [ruleHash EXCEPT ![call[p].id] = NewRule(call[p].id, call[p].data)]
       /\ Wrote(p, "setName")
       /\ UNCHANGED <<nameIndex, rulesSet, priorityIndex, nextId, auditLog>>
  /\ UNCHANGED <<limiterVars, listVars, chainVars, windowVars, resolverVars, serviceVars>>

\* RateLimitRule.createRule: redis.set of the name index
SetName(p) ==
  /\ call[p].pc = "setName"
  /\ IF ~storeUp THEN Rejected(p)
     ELSE
       /\ nameIndex' = [nameIndex EXCEPT ![call[p].name] = call[p].id]
       /\ Wrote(p, "sadd")
       /\ UNCHANGED <<ruleHash, rulesSet, priorityIndex, nextId, auditLog>>
  /\ UNCHANGED <<limiterVars, listVars, chainVars, windowVars, resolverVars, serviceVars>>

\* RateLimitRule.createRule: redis.sadd to rl:rules
Sadd(p) ==
  /\ call[p].pc = "sadd"
  /\ IF ~storeUp THEN Rejected(p)
     ELSE
       /\ rulesSet' = rulesSet \cup {call[p].id}
       /\ Wrote(p, "zadd")
       /\ UNCHANGED <<ruleHash, nameIndex, priorityIndex, nextId, auditLog>>
  /\ UNCHANGED <<limiterVars, listVars, chainVars, windowVars, resolverVars, serviceVars>>

\* RateLimitRule.createRule: redis.zadd to rl:rules:priority, and the rule
\* it returns
Zadd(p) ==
  /\ call[p].pc = "zadd"
  /\ IF ~storeUp THEN Rejected(p)
     ELSE
       /\ priorityIndex' = [priorityIndex EXCEPT ![call[p].id] = call[p].data.priority]
       /\ Wrote(p, "logAudit")
       /\ UNCHANGED <<ruleHash, nameIndex, rulesSet, nextId, auditLog>>
  /\ UNCHANGED <<limiterVars, listVars, chainVars, windowVars, resolverVars, serviceVars>>

\* ruleService.deleteRule is called for the id of a rule that was created
DeleteRuleBy(p, id, actor) ==
  /\ call[p].pc = "idle"
  /\ \A q \in Workers : q < p => call[q].pc # "idle"
  /\ id < nextId
  /\ call' = [call EXCEPT ![p] = [IdleCall EXCEPT !.pc = "getExisting",
                                                  !.op = "delete", !.id = id,
                                                  !.actor = actor]]
  /\ lastCall' = NoCall
  /\ UNCHANGED <<ruleHash, nameIndex, rulesSet, priorityIndex, nextId, auditLog,
                 deletedNames, conflictNames>>
  /\ UNCHANGED <<limiterVars, listVars, chainVars, windowVars, resolverVars, serviceVars>>

DeleteRule(p, id) == DeleteRuleBy(p, id, "admin")

\* getRuleById: null when Redis is not connected or the hash is empty, the
\* hash with its priority and enabled fields parsed otherwise; redis.hgetall
\* may be rejected, and JSON.parse throws on a hash without target or limit
getRuleById(id) ==
  IF ~isConnected THEN [kind |-> "null", rule |-> NoRule]
  ELSE IF ~storeUp THEN [kind |-> "StoreError", rule |-> NoRule]
  ELSE IF ruleHash[id] = NoRule THEN [kind |-> "null", rule |-> NoRule]
  ELSE IF ruleHash[id].target = NoTarget \/ ruleHash[id].limit = NoLimit
  THEN [kind |-> "SyntaxError", rule |-> NoRule]
  ELSE [kind |-> "rule", rule |-> ruleHash[id]]

\* ruleService.deleteRule: getRuleById of the rule, for the audit entry
GetExisting(p) ==
  /\ call[p].pc = "getExisting"
  /\ LET got == getRuleById(call[p].id)
     IN IF got.kind = "null" THEN Return(p, "NotFound")
        ELSE IF got.kind # "rule" THEN Return(p, got.kind)
        ELSE /\ call' = [call EXCEPT ![p].pc = "deleteRule",
                                     ![p].name = got.rule.name]
             /\ UNCHANGED <<lastCall, conflictNames, deletedNames>>
  /\ UNCHANGED <<ruleHash, nameIndex, rulesSet, priorityIndex, nextId, auditLog>>
  /\ UNCHANGED <<limiterVars, listVars, chainVars, windowVars, resolverVars, serviceVars>>

\* RateLimitRule.deleteRule: the connection check and getRuleById
GetRule(p) ==
  /\ call[p].pc = "deleteRule"
  /\ LET got == getRuleById(call[p].id)
     IN IF ~isConnected THEN Return(p, "StoreRequired")
        ELSE IF got.kind = "null" THEN Return(p, "false")
        ELSE IF got.kind # "rule" THEN Return(p, got.kind)
        ELSE /\ call' = [call EXCEPT ![p].pc = "delName",
                                     ![p].name = got.rule.name]
             /\ UNCHANGED <<lastCall, conflictNames, deletedNames>>
  /\ UNCHANGED <<ruleHash, nameIndex, rulesSet, priorityIndex, nextId, auditLog>>
  /\ UNCHANGED <<limiterVars, listVars, chainVars, windowVars, resolverVars, serviceVars>>

DelNameKey_keep(index, name) == index

\* redis.del of rl:rule:name:<rule.name>
DelNameKey(index, name) == [index EXCEPT ![name] = 0]

\* RateLimitRule.deleteRule: redis.del of the name index
DelName(p) ==
  /\ call[p].pc = "delName"
  /\ IF ~storeUp THEN Rejected(p)
     ELSE
       /\ nameIndex' = DelNameKey(nameIndex, call[p].name)
       /\ Wrote(p, "delHash")
       /\ UNCHANGED <<ruleHash, rulesSet, priorityIndex, nextId, auditLog>>
  /\ UNCHANGED <<limiterVars, listVars, chainVars, windowVars, resolverVars, serviceVars>>

\* RateLimitRule.deleteRule: redis.del of the rule hash
DelHash(p) ==
  /\ call[p].pc = "delHash"
  /\ IF ~storeUp THEN Rejected(p)
     ELSE
       /\ ruleHash' = [ruleHash EXCEPT ![call[p].id] = NoRule]
       /\ Wrote(p, "srem")
       /\ UNCHANGED <<nameIndex, rulesSet, priorityIndex, nextId, auditLog>>
  /\ UNCHANGED <<limiterVars, listVars, chainVars, windowVars, resolverVars, serviceVars>>

\* RateLimitRule.deleteRule: redis.srem from rl:rules
Srem(p) ==
  /\ call[p].pc = "srem"
  /\ IF ~storeUp THEN Rejected(p)
     ELSE
       /\ rulesSet' = rulesSet \ {call[p].id}
       /\ Wrote(p, "zrem")
       /\ UNCHANGED <<ruleHash, nameIndex, priorityIndex, nextId, auditLog>>
  /\ UNCHANGED <<limiterVars, listVars, chainVars, windowVars, resolverVars, serviceVars>>

\* RateLimitRule.deleteRule: redis.zrem from rl:rules:priority
Zrem(p) ==
  /\ call[p].pc = "zrem"
  /\ IF ~storeUp THEN Rejected(p)
     ELSE
       /\ priorityIndex' = [priorityIndex EXCEPT ![call[p].id] = -1]
       /\ Wrote(p, "logAudit")
       /\ UNCHANGED <<ruleHash, nameIndex, rulesSet, nextId, auditLog>>
  /\ UNCHANGED <<limiterVars, listVars, chainVars, windowVars, resolverVars, serviceVars>>

\* logAudit's entry: the caller's action, rule and actor, and the timestamp
AuditEntry(c) ==
  [ action |-> c.op, ruleId |-> c.id, ruleName |-> c.name, actor |-> c.actor,
    timestamp |-> now ]

logAudit_skip(c) ==
  IF ~isConnected THEN [level |-> "warn", log |-> auditLog, thrown |-> FALSE]
  ELSE IF ~storeUp THEN [level |-> "error", log |-> auditLog, thrown |-> FALSE]
  ELSE [level |-> "info", log |-> auditLog, thrown |-> FALSE]

logAudit_rethrow(c) ==
  IF ~isConnected THEN [level |-> "warn", log |-> auditLog, thrown |-> FALSE]
  ELSE IF ~storeUp THEN [level |-> "error", log |-> auditLog, thrown |-> TRUE]
  ELSE [level |-> "info", log |-> <<AuditEntry(c)>> \o auditLog, thrown |-> FALSE]

\* logAudit: logger.warn and nothing written when Redis is not connected;
\* logger.error when redis.lpush is rejected (the catch block, which does not
\* rethrow); logger.info with the entry at the head of the list otherwise
logAudit(c) ==
  IF ~isConnected THEN [level |-> "warn", log |-> auditLog, thrown |-> FALSE]
  ELSE IF ~storeUp THEN [level |-> "error", log |-> auditLog, thrown |-> FALSE]
  ELSE [level |-> "info", log |-> <<AuditEntry(c)>> \o auditLog, thrown |-> FALSE]

\* what the service function returns after logAudit
Success(op) == IF op = "delete" THEN "true" ELSE "ok"

\* await logAudit(...) of createRule, updateRule, deleteRule, enableRule and
\* disableRule (redis.lpush, redis.expire), and the call returns
LogAudit(p) ==
  /\ call[p].pc = "logAudit"
  /\ LET done == logAudit(call[p])
         c == [call[p] EXCEPT !.level = done.level,
                              !.audits = Len(done.log) - Len(auditLog)]
     IN /\ auditLog' = done.log
        /\ call' = [call EXCEPT ![p] = IdleCall]
        /\ lastCall' = Finished(c, IF done.thrown THEN "StoreError" ELSE Success(c.op))
        /\ deletedNames' = IF c.op = "delete" THEN deletedNames \cup {c.name}
                           ELSE deletedNames
        /\ UNCHANGED conflictNames
  /\ UNCHANGED <<ruleHash, nameIndex, rulesSet, priorityIndex, nextId>>
  /\ UNCHANGED <<limiterVars, listVars, chainVars, windowVars, resolverVars, serviceVars>>

\* ruleService.updateRule is called for the id of a rule that was created
UpdateRule(p, id, updates, actor) ==
  /\ call[p].pc = "idle"
  /\ \A q \in Workers : q < p => call[q].pc # "idle"
  /\ id < nextId
  /\ Len(auditLog) < MaxAudit
  /\ call' = [call EXCEPT ![p] = [IdleCall EXCEPT !.pc = "getExistingRule",
                                                  !.op = "update", !.id = id,
                                                  !.updates = updates,
                                                  !.actor = actor]]
  /\ lastCall' = NoCall
  /\ UNCHANGED <<ruleHash, nameIndex, rulesSet, priorityIndex, nextId, auditLog,
                 deletedNames, conflictNames>>
  /\ UNCHANGED <<limiterVars, listVars, chainVars, windowVars, resolverVars, serviceVars>>

\* ruleService.enableRule / disableRule: RateLimitRule.enableRule /
\* disableRule call updateRule(ruleId, {enabled: true / false})
SetEnabled(p, id, enabled, actor) ==
  /\ call[p].pc = "idle"
  /\ \A q \in Workers : q < p => call[q].pc # "idle"
  /\ id < nextId
  /\ Len(auditLog) < MaxAudit
  /\ call' = [call EXCEPT ![p] =
                [IdleCall EXCEPT !.pc = "updateRule",
                                 !.op = IF enabled THEN "enable" ELSE "disable",
                                 !.id = id,
                                 !.updates = [NoUpdates EXCEPT !.enabled =
                                                IF enabled THEN "true" ELSE "false"],
                                 !.actor = actor]]
  /\ lastCall' = NoCall
  /\ UNCHANGED <<ruleHash, nameIndex, rulesSet, priorityIndex, nextId, auditLog,
                 deletedNames, conflictNames>>
  /\ UNCHANGED <<limiterVars, listVars, chainVars, windowVars, resolverVars, serviceVars>>

EnableRule(p, id, actor) == SetEnabled(p, id, TRUE, actor)
DisableRule(p, id, actor) == SetEnabled(p, id, FALSE, actor)

\* ruleService.updateRule: getRuleById of the existing rule
GetExistingRule(p) ==
  /\ call[p].pc = "getExistingRule"
  /\ LET got == getRuleById(call[p].id)
     IN IF got.kind = "null" THEN Return(p, "NotFound")
        ELSE IF got.kind # "rule" THEN Return(p, got.kind)
        ELSE /\ call' = [call EXCEPT ![p].pc = "updateRule",
                                     ![p].name = got.rule.name]
             /\ UNCHANGED <<lastCall, conflictNames, deletedNames>>
  /\ UNCHANGED <<ruleHash, nameIndex, rulesSet, priorityIndex, nextId, auditLog>>
  /\ UNCHANGED <<limiterVars, listVars, chainVars, windowVars, resolverVars, serviceVars>>

\* RateLimitRule.updateRule: the connection check and getRuleById
CheckExists(p) ==
  /\ call[p].pc = "updateRule"
  /\ LET got == getRuleById(call[p].id)
     IN IF ~isConnected THEN Return(p, "StoreRequired")
        ELSE IF got.kind = "null" THEN Return(p, "NotFound")
        ELSE IF got.kind # "rule" THEN Return(p, got.kind)
        ELSE /\ call' = [call EXCEPT ![p].pc = IF call[p].updates.priority # -1
                                                THEN "zaddPriority" ELSE "hsetUpdate",
                                     ![p].before = got.rule]
             /\ UNCHANGED <<lastCall, conflictNames, deletedNames>>
  /\ UNCHANGED <<ruleHash, nameIndex, rulesSet, priorityIndex, nextId, auditLog>>
  /\ UNCHANGED <<limiterVars, listVars, chainVars, windowVars, resolverVars, serviceVars>>

\* RateLimitRule.updateRule: redis.zadd of the new priority
ZaddPriority(p) ==
  /\ call[p].pc = "zaddPriority"
  /\ IF ~storeUp THEN Rejected(p)
     ELSE
       /\ priorityIndex' = [priorityIndex EXCEPT ![call[p].id] = call[p].updates.priority]
       /\ Wrote(p, "hsetUpdate")
       /\ UNCHANGED <<ruleHash, nameIndex, rulesSet, nextId, auditLog>>
  /\ UNCHANGED <<limiterVars, listVars, chainVars, windowVars, resolverVars, serviceVars>>

updateData_defaults(hash, u) ==
  [ hash EXCEPT !.target = IF u.target # NoTarget THEN u.target ELSE @,
                !.limit = IF u.limit # NoLimit THEN u.limit ELSE @,
                !.enabled = IF u.enabled # "undefined" THEN u.enabled ELSE @,
                !.priority = IF u.priority # -1 THEN u.priority ELSE DefaultPriority,
                !.updatedAt = now ]

\* RateLimitRule.updateRule: updateData, the fields redis.hset writes
updateData(hash, u) ==
  [ hash EXCEPT !.target = IF u.target # NoTarget THEN u.target ELSE @,
                !.limit = IF u.limit # NoLimit THEN u.limit ELSE @,
                !.enabled = IF u.enabled # "undefined" THEN u.enabled ELSE @,
                !.priority = IF u.priority # -1 THEN u.priority ELSE @,
                !.updatedAt = now ]

\* RateLimitRule.updateRule: redis.hset of updateData
HsetUpdate(p) ==
  /\ call[p].pc = "hsetUpdate"
  /\ IF ~storeUp THEN Rejected(p)
     ELSE
       /\ ruleHash' = [ruleHash EXCEPT ![call[p].id] = updateData(@, call[p].updates)]
       /\ Wrote(p, "getUpdated")
       /\ UNCHANGED <<nameIndex, rulesSet, priorityIndex, nextId, auditLog>>
  /\ UNCHANGED <<limiterVars, listVars, chainVars, windowVars, resolverVars, serviceVars>>

\* RateLimitRule.updateRule: return getRuleById(ruleId); enableRule and
\* disableRule then read rule.name for the audit entry
GetUpdated(p) ==
  /\ call[p].pc = "getUpdated"
  /\ LET got == getRuleById(call[p].id)
     IN IF got.kind \notin {"null", "rule"} THEN Return(p, got.kind)
        ELSE IF got.kind = "null" /\ call[p].op # "update" THEN Return(p, "TypeError")
        ELSE /\ call' = [call EXCEPT ![p].pc = "logAudit",
                                     ![p].after = got.rule,
                                     ![p].name = IF call[p].op = "update" THEN @
                                                 ELSE got.rule.name]
             /\ UNCHANGED <<lastCall, conflictNames, deletedNames>>
  /\ UNCHANGED <<ruleHash, nameIndex, rulesSet, priorityIndex, nextId, auditLog>>
  /\ UNCHANGED <<limiterVars, listVars, chainVars, windowVars, resolverVars, serviceVars>>

\* the sequences that list the members of a set once each
Orders(S) ==
  {q \in [1..Cardinality(S) -> S] : \A i, j \in 1..Cardinality(S) : q[i] = q[j] => i = j}

\* SMEMBERS rl:rules: the members in an order Redis does not specify
Smembers == Orders(rulesSet)

zrevrangeBefore_asc(a, b) ==
  \/ priorityIndex[a] < priorityIndex[b]
  \/ priorityIndex[a] = priorityIndex[b] /\ a < b

\* ZREVRANGE's order: higher score first, members of equal score in
\* descending order of the member (the rule id, which begins with the time
\* of its creation)
zrevrangeBefore(a, b) ==
  \/ priorityIndex[a] > priorityIndex[b]
  \/ priorityIndex[a] = priorityIndex[b] /\ a > b

\* ZREVRANGE rl:rules:priority 0 -1
Zrevrange ==
  LET S == {id \in RuleIds : priorityIndex[id] # -1}
  IN CHOOSE q \in Orders(S) :
       \A i, j \in 1..Cardinality(S) : i < j => zrevrangeBefore(q[i], q[j])

\* getRuleById: rule.enabled === 'true'
Enabled(rule) == rule.enabled = "true"

\* ruleService.getAllRules / getActiveRules: RateLimitRule.getAllRules(options)
GetAllRules(p, options) ==
  /\ call[p].pc = "idle"
  /\ \A q \in Workers : q < p => call[q].pc # "idle"
  /\ call' = [call EXCEPT ![p] = [IdleCall EXCEPT !.pc = "ruleIds", !.op = "list",
                                                  !.opts = options]]
  /\ lastCall' = NoCall
  /\ UNCHANGED <<ruleHash, nameIndex, rulesSet, priorityIndex, nextId, auditLog,
                 deletedNames, conflictNames>>
  /\ UNCHANGED <<limiterVars, listVars, chainVars, windowVars, resolverVars, serviceVars>>

\* ruleService.getActiveRules: enabled rules sorted by priority
GetActiveRules(p) == GetAllRules(p, [enabledOnly |-> TRUE, sortByPriority |-> TRUE])

\* getAllRules: [] when Redis is not connected, else redis.zrevrange or
\* redis.smembers
RuleIdsStep(p) ==
  /\ call[p].pc = "ruleIds"
  /\ IF ~isConnected THEN Return(p, "ok")
     ELSE IF ~storeUp THEN Return(p, "StoreError")
     ELSE \E ids \in IF call[p].opts.sortByPriority THEN {Zrevrange} ELSE Smembers :
            /\ call' = [call EXCEPT ![p].pc = "fetchRules", ![p].ids = ids,
                                    ![p].scores = IF call[p].opts.sortByPriority
                                                  THEN priorityIndex ELSE <<>>]
            /\ UNCHANGED <<lastCall, conflictNames, deletedNames>>
  /\ UNCHANGED <<ruleHash, nameIndex, rulesSet, priorityIndex, nextId, auditLog>>
  /\ UNCHANGED <<limiterVars, listVars, chainVars, windowVars, resolverVars, serviceVars>>

\* rules.filter(rule => rule !== null), and the enabledOnly filter
RECURSIVE FilterRules(_, _)
FilterRules(got, enabledOnly) ==
  IF got = <<>> THEN <<>>
  ELSE LET keep == /\ Head(got).kind = "rule"
                   /\ (enabledOnly => Enabled(Head(got).rule))
       IN (IF keep THEN <<Head(got).rule>> ELSE <<>>)
            \o FilterRules(Tail(got), enabledOnly)

\* getAllRules: Promise.all of getRuleById over the ids, the filters, return
FetchRules(p) ==
  /\ call[p].pc = "fetchRules"
  /\ LET got == [i \in 1..Len(call[p].ids) |-> getRuleById(call[p].ids[i])]
         failed == {i \in 1..Len(got) : got[i].kind \notin {"null", "rule"}}
     IN IF failed # {}
        THEN Return(p, got[CHOOSE i \in failed : \A j \in failed : i <= j].kind)
        ELSE /\ call' = [call EXCEPT ![p] = IdleCall]
             /\ lastCall' = Finished([call[p] EXCEPT !.rules =
                                        FilterRules(got, call[p].opts.enabledOnly)], "ok")
             /\ UNCHANGED <<conflictNames, deletedNames>>
  /\ UNCHANGED <<ruleHash, nameIndex, rulesSet, priorityIndex, nextId, auditLog>>
  /\ UNCHANGED <<limiterVars, listVars, chainVars, windowVars, resolverVars, serviceVars>>

\* ------------------------------------------------------ the rule validator
\* validator: target.type isIn
TargetTypes == {"endpoint", "ip", "user", "apikey"}

\* validator: target.type and target.pattern (notEmpty, 1-200 characters)
ValidTarget(t) == t.type \in TargetTypes /\ t.pattern # ""

\* validator: limit.requests isInt({min: 1, max: 1000000})
ValidRequests(n) == n >= 1 /\ n <= MaxRequests

\* validator: const multipliers = { s: 1, m: 60, h: 3600, d: 86400 }
multipliers == [s |-> 1, m |-> 60, h |-> 3600, d |-> 86400]

\* validator: limit.window matches /^(\d+)(s|m|h|d)$/ and, converted to
\* seconds, lies between 1 second and 1 day
ValidWindow(w) ==
  /\ w.unit \in DOMAIN multipliers
  /\ LET seconds == w.num * multipliers[w.unit]
     IN ~(seconds < 1 \/ seconds > MaxWindowSeconds)

\* ruleValidationRules: what the validator accepts of a rule's target and
\* limit.  (No route runs the validator: ruleService.createRule and
\* updateRule are not called through it.)
ruleValidationRules(target, limit) ==
  /\ ValidTarget(target)
  /\ ValidRequests(limit.requests)
  /\ ValidWindow(limit.window)

\* checkConflicts: the enabled rules whose target has the type and the
\* pattern of the given target.  (Neither createRule nor updateRule call it.)
checkConflicts(target) ==
  { id \in rulesSet :
      /\ ruleHash[id] # NoRule
      /\ Enabled(ruleHash[id])
      /\ ruleHash[id].target.type = target.type
      /\ ruleHash[id].target.pattern = target.pattern }

\* --------------------------------------------------------- specifications
\* the middleware before its first request, whatever its configs
\* the clients connectRedis can create
ClientIds == 1..MaxClients

\* after start-up: connectRedis has run and its client is ready
InitConnected ==
  /\ redisClient = 1
  /\ clients = [c \in ClientIds |-> IF c = 1 THEN "ready" ELSE "none"]
  /\ readySince = [c \in ClientIds |-> c = 1]
  /\ quitting = {}

\* the access tokens signed so far, by jti, and the refresh tokens
Jtis == {"jti1"}
RefreshIds == 1..MaxRefresh

IdleSession == [pc |-> "idle", route |-> "none", jti |-> "none", refresh |-> 0, after |-> FALSE]
NoAnswer == [route |-> "none", credential |-> "none", status |-> 0, invoked |-> FALSE, by |-> "none"]

\* nobody has logged in
InitAuth ==
  /\ blacklist = {}
  /\ refreshTokens = {}
  /\ nextRefresh = 1
  /\ expired = {}
  /\ session = [p \in Workers |-> IdleSession]
  /\ adminAnswer = NoAnswer
  /\ loggedOut = {}
  /\ redeemed = [r \in RefreshIds |-> 0]

\* the retry strategy has not been called; no variable of the environment set
Null == -1
NoEnv == [module |-> "config", maxRetries |-> 0, retryDelay |-> 0, maxRetryDelay |-> 0]
NoRetry == [attempts |-> 0, delay |-> Null, previous |-> Null]

InitRetry ==
  /\ env = NoEnv
  /\ retry = NoRetry

\* the server listens and no signal has come
InitShutdown ==
  /\ isShuttingDown = FALSE
  /\ activeConnections = 0
  /\ server = "listening"
  /\ sinceSignal = 0
  /\ exitCode = Null
  /\ signals = 0
  /\ shutdowns = 0

InitService == InitConnected /\ InitAuth /\ InitRetry /\ InitShutdown

InitCounters ==
  /\ now = 0
  /\ failureMode \in {"open", "closed"}
  /\ storeUp = TRUE
  /\ isConnected = TRUE
  /\ rateLimiters = {}
  /\ memoryLimiter = NoLimiter
  /\ store = [l \in Limiters |-> [i \in Identifiers |-> NoKey]]
  /\ blocked = [l \in Limiters |-> [i \in Identifiers |-> 0]]
  /\ memory = [i \in Identifiers |-> NoKey]
  /\ req = [p \in Workers |-> IdleReq]
  /\ last = NoRequest
  /\ win = [l \in Limiters |-> [i \in Identifiers |-> NoWindow]]
  /\ lastDeny = [l \in Limiters |-> [i \in Identifiers |-> NoDeny]]
  /\ consumes = [l \in Limiters |-> [i \in Identifiers |-> <<>>]]

InitMiddleware == InitCounters /\ InitService

InitLimiter ==
  /\ InitMiddleware
  /\ cfg \in {[l \in Limiters |-> c] : c \in Configs}

InitChain ==
  /\ chain = [p \in Workers |-> IdleChain]
  /\ served = NoServed

InitResolver ==
  /\ request = NoMetadata
  /\ identity = extractClientIP(NoMetadata)

InitLists ==
  /\ blockEntries = {}
  /\ allowEntries = {}

InitRules ==
  /\ ruleHash = [id \in RuleIds |-> NoRule]
  /\ nameIndex = [n \in Names |-> 0]
  /\ rulesSet = {}
  /\ priorityIndex = [id \in RuleIds |-> -1]
  /\ nextId = 1
  /\ auditLog = <<>>
  /\ call = [p \in Workers |-> IdleCall]
  /\ lastCall = NoCall
  /\ deletedNames = {}
  /\ conflictNames = {}

\* the api preset (1 minute windows, no block duration), failure mode closed
InitIdleLimiter ==
  /\ InitLimiter
  /\ failureMode = "closed"
  /\ cfg = [l \in Limiters |-> [points |-> MaxPoints, duration |-> 60, blockDuration |-> 0]]

NextLimiter ==
  \/ \E p \in Workers, ident \in Identifiers \cup {NoIdentifier, KeyGenThrows} :
       Begin(p, "api", ident) /\ UNCHANGED <<chainVars, windowVars, resolverVars, serviceVars>>
  \/ \E p \in Workers : StoreReply(p) /\ UNCHANGED <<chainVars, windowVars, resolverVars, serviceVars>>
  \/ Tick
  \/ StoreDown
  \/ StoreRecover
  \/ OnClose
  \/ OnReady

\* the middleware next to administrators adding block and allow entries,
\* with the store answering
NextLists ==
  \/ \E p \in Workers : Begin(p, "api", "ip1") /\ UNCHANGED <<chainVars, windowVars, resolverVars, serviceVars>>
  \/ \E p \in Workers : StoreReply(p) /\ UNCHANGED <<chainVars, windowVars, resolverVars, serviceVars>>
  \/ Tick
  \/ \E i \in Identifiers : BlockIdentity(i)
  \/ \E i \in Identifiers : AllowIdentity(i)

CreateStep(p) ==
  \/ GetRuleByName(p)
  \/ GetRuleById(p)
  \/ CheckName(p)
  \/ Hset(p)
  \/ SetName(p)
  \/ Sadd(p)
  \/ Zadd(p)
  \/ LogAudit(p)

DeleteStep(p) ==
  \/ GetExisting(p)
  \/ GetRule(p)
  \/ DelName(p)
  \/ DelHash(p)
  \/ Srem(p)
  \/ Zrem(p)

RuleStep(p) ==
  \/ CreateStep(p)
  \/ DeleteStep(p)

UpdateStep(p) ==
  \/ GetExistingRule(p)
  \/ CheckExists(p)
  \/ ZaddPriority(p)
  \/ HsetUpdate(p)
  \/ GetUpdated(p)

ListStep(p) ==
  \/ RuleIdsStep(p)
  \/ FetchRules(p)

NoCallInProgress == \A q \in Workers : call[q].pc = "idle"

\* rule data and updates that differ in priority only
Priorities == {50, DefaultPriority}
PriorityData == {[DefaultData(n) EXCEPT !.priority = pr] : n \in Names, pr \in Priorities}
PriorityUpdates == {[NoUpdates EXCEPT !.priority = pr] : pr \in Priorities}

\* the rule service called by one administrator, one call after the other:
\* rules of several priorities created, updated, enabled, disabled, deleted
\* and listed
NextListing ==
  \/ \E p \in Workers, d \in PriorityData : NoCallInProgress /\ CreateRuleWith(p, d, "admin")
  \/ \E p \in Workers, id \in RuleIds : NoCallInProgress /\ DeleteRule(p, id)
  \/ \E p \in Workers, id \in RuleIds, u \in PriorityUpdates :
       NoCallInProgress /\ UpdateRule(p, id, u, "admin")
  \/ \E p \in Workers, id \in RuleIds : NoCallInProgress /\ EnableRule(p, id, "admin")
  \/ \E p \in Workers, id \in RuleIds : NoCallInProgress /\ DisableRule(p, id, "admin")
  \/ \E p \in Workers : NoCallInProgress /\ GetActiveRules(p)
  \/ \E p \in Workers : NoCallInProgress /\ GetAllRules(p, NoOptions)
  \/ \E p \in Workers : RuleStep(p)
  \/ \E p \in Workers : UpdateStep(p)
  \/ \E p \in Workers : ListStep(p)

\* rule data and updates the validator accepts and rejects: two targets and
\* a target of unknown type; limits with requests 0, 1, more than the
\* maximum, and windows of 0 seconds, 1 hour and 25 hours
SomeTargets ==
  { [type |-> "ip", pattern |-> "10.*"], [type |-> "endpoint", pattern |-> "/api/*"],
    [type |-> "country", pattern |-> "NL"] }
SomeLimits ==
  { [requests |-> r, window |-> [num |-> 1, unit |-> "h"]] : r \in {0, 1, MaxRequests + 1} }
    \cup { [requests |-> 1, window |-> w] :
             w \in {[num |-> 0, unit |-> "s"], [num |-> 25, unit |-> "h"]} }
SomeData ==
  {[DefaultData(n) EXCEPT !.target = t, !.limit = l] :
     n \in Names, t \in SomeTargets, l \in SomeLimits}
SomeUpdates ==
  {[NoUpdates EXCEPT !.target = t] : t \in SomeTargets}
    \cup {[NoUpdates EXCEPT !.limit = l] : l \in SomeLimits}
    \cup {[NoUpdates EXCEPT !.priority = DefaultPriority]}

\* the rule service called by one administrator, one call after the other,
\* with rule data and updates of every kind
NextValidation ==
  \/ \E p \in Workers, d \in SomeData : NoCallInProgress /\ CreateRuleWith(p, d, "admin")
  \/ \E p \in Workers, id \in RuleIds, u \in SomeUpdates :
       NoCallInProgress /\ UpdateRule(p, id, u, "admin")
  \/ \E p \in Workers : CreateStep(p)
  \/ \E p \in Workers : UpdateStep(p)

\* the rule service called by one administrator, one call after the other,
\* until Redis fails and the connection flag follows
NextAudit ==
  \/ \E p \in Workers, n \in Names : NoCallInProgress /\ CreateRule(p, n)
  \/ \E p \in Workers, id \in RuleIds : NoCallInProgress /\ DeleteRule(p, id)
  \/ \E p \in Workers, id \in RuleIds, u \in PriorityUpdates :
       NoCallInProgress /\ UpdateRule(p, id, u, "admin")
  \/ \E p \in Workers, id \in RuleIds : NoCallInProgress /\ EnableRule(p, id, "admin")
  \/ \E p \in Workers, id \in RuleIds : NoCallInProgress /\ DisableRule(p, id, "admin")
  \/ \E p \in Workers : RuleStep(p)
  \/ \E p \in Workers : UpdateStep(p)
  \/ StoreDown
  \/ OnClose

\* no create, update or delete is in progress
NoMutationInProgress == \A q \in Workers : call[q].op \notin {"create", "update", "delete"}

\* one administrator creating, updating and deleting rules, one call after
\* the other, while a reader lists the rules
NextReader ==
  \/ \E p \in Workers, d \in PriorityData :
       NoMutationInProgress /\ CreateRuleWith(p, d, "admin")
  \/ \E p \in Workers, id \in RuleIds : NoMutationInProgress /\ DeleteRule(p, id)
  \/ \E p \in Workers, id \in RuleIds, u \in PriorityUpdates :
       NoMutationInProgress /\ UpdateRule(p, id, u, "admin")
  \/ \E p \in Workers : GetActiveRules(p)
  \/ \E p \in Workers : GetAllRules(p, NoOptions)
  \/ \E p \in Workers : RuleStep(p)
  \/ \E p \in Workers : UpdateStep(p)
  \/ \E p \in Workers : ListStep(p)

\* rules created, updated, enabled and disabled by one administrator, one
\* call after the other, as time passes
NextToggle ==
  \/ \E p \in Workers, d \in PriorityData : NoCallInProgress /\ CreateRuleWith(p, d, "admin")
  \/ \E p \in Workers, id \in RuleIds, u \in PriorityUpdates :
       NoCallInProgress /\ UpdateRule(p, id, u, "admin")
  \/ \E p \in Workers, id \in RuleIds : NoCallInProgress /\ EnableRule(p, id, "admin")
  \/ \E p \in Workers, id \in RuleIds : NoCallInProgress /\ DisableRule(p, id, "admin")
  \/ \E p \in Workers : CreateStep(p)
  \/ \E p \in Workers : UpdateStep(p)
  \/ Tick

\* rule service calls made one after the other
NextRulesSerial ==
  \/ \E p \in Workers, n \in Names : NoCallInProgress /\ CreateRule(p, n)
  \/ \E p \in Workers, id \in RuleIds : NoCallInProgress /\ DeleteRule(p, id)
  \/ \E p \in Workers : RuleStep(p)

\* rule service calls made concurrently
NextRules ==
  \/ \E p \in Workers, n \in Names : CreateRule(p, n)
  \/ \E p \in Workers, id \in RuleIds : DeleteRule(p, id)
  \/ \E p \in Workers : RuleStep(p)

\* requests through the router of routes/api.js: the router-wide limiter and
\* the limiter of /expensive, each with a capacity and failure mode of its own
InitRouter ==
  /\ InitMiddleware /\ InitLists /\ InitRules /\ InitChain /\ InitResolver
  /\ cfg \in [Limiters -> {c \in Configs : c.duration = 60 /\ c.blockDuration = 0}]

NextRouter ==
  \/ \E p \in Workers, r \in Routes, ident \in Identifiers \cup {NoIdentifier} :
       Arrive(p, r, ident)
  \/ \E p \in Workers : Dispatch(p)
  \/ \E p \in Workers : LayerReply(p)
  \/ StoreDown
  \/ OnClose

\* one client's requests to a limiter of one-minute windows, the store
\* answering, seen at a finer step of the clock
NextWindow ==
  \/ \E p \in Workers : Request(p)
  \/ \E p \in Workers : Consume(p)
  \/ Elapse

\* requests to a store that is reachable but may answer too late
NextTimeout ==
  \/ \E p \in Workers : Request(p)
  \/ \E p \in Workers : StoreReply(p) /\ UNCHANGED <<chainVars, resolverVars, serviceVars, windowVars>>
  \/ \E p \in Workers : CommandTimeout(p) /\ UNCHANGED <<chainVars, resolverVars, serviceVars, windowVars>>
  \/ Tick

Init == InitLimiter /\ InitLists /\ InitRules /\ InitChain /\ InitResolver
Next == NextLimiter
Spec == Init /\ [][Next]_vars

InitQuiet == InitIdleLimiter /\ InitLists /\ InitRules /\ InitChain /\ InitResolver

\* requests of every kind resolved to an identity
NextIdentity ==
  \/ Receive
  \/ Resolve
  \/ Answer
SpecLists == InitQuiet /\ [][NextLists]_vars
SpecRulesSerial == InitQuiet /\ [][NextRulesSerial]_vars
SpecRules == InitQuiet /\ [][NextRules]_vars
SpecListing == InitQuiet /\ [][NextListing]_vars
SpecRouter == InitRouter /\ [][NextRouter]_vars
SpecValidation == InitQuiet /\ [][NextValidation]_vars
SpecAudit == InitQuiet /\ [][NextAudit]_vars
SpecReader == InitQuiet /\ [][NextReader]_vars
SpecToggle == InitQuiet /\ [][NextToggle]_vars
SpecIdentity == InitQuiet /\ [][NextIdentity]_vars
SpecWindow == InitRouter /\ [][NextWindow]_vars
SpecTimeout == Init /\ [][NextTimeout]_vars

\* ------------------------------------------------------------------ claims
Answered == last.id # "none"
Response == last.responses[1]
ServiceUnavailable == createError("SERVICE_UNAVAILABLE")

\* C1: with the store answering, in one window of a limiter of capacity N
\* the k-th request of an identity is admitted exactly when k <= N: the
\* first N are admitted and the (N+1)-th is denied.
C1_SaturationDenies ==
  \A l \in Limiters, i \in Identifiers :
    (win[l][i].clean /\ store[l][i].exp > now) =>
      win[l][i].admitted = Min(win[l][i].issued, cfg[l].points)

C1_Witness ==
  \E i \in Identifiers :
    /\ win["api"][i].clean
    /\ win["api"][i].issued = cfg["api"].points + 1
    /\ win["api"][i].admitted = cfg["api"].points
    /\ last.id = i /\ last.via = "redis" /\ last.responses = <<RateLimited>>

\* C2: whatever the interleaving of concurrent requests of one identity, no
\* more than N of the requests of one window are admitted by a limiter of
\* capacity N whose store answers.
C2_ConcurrentAtMostN ==
  \A l \in Limiters, i \in Identifiers :
    win[l][i].clean => win[l][i].admitted <= cfg[l].points

\* two requests (2N for N = 1) in flight together: one admitted, one denied
C2_Witness ==
  /\ cfg["api"].points = 1
  /\ last.overlap /\ last.via = "redis" /\ last.responses = <<RateLimited>>
  /\ win["api"][last.id].clean
  /\ win["api"][last.id].issued = 2
  /\ win["api"][last.id].admitted = 1

\* C3: a request that finds the store known unreachable (and still down when
\* it is decided) under failure mode open is admitted.
C3_OpenAdmits ==
  (Answered /\ last.flagDown /\ last.storeDown /\ failureMode = "open") =>
    last.responses = <<Admitted>>

\* C4: a request that finds the store known unreachable under failure mode
\* closed is answered 503 SERVICE_UNAVAILABLE, which is no 429
\* RATE_LIMIT_EXCEEDED.
C4_ClosedDenies503 ==
  (Answered /\ last.flagDown /\ failureMode = "closed") =>
    /\ last.responses = <<ServiceUnavailable>>
    /\ Response.status = 503
    /\ Response.status # RateLimited.status
    /\ Response.code # RateLimited.code

C4_Witness ==
  /\ last.id \in Identifiers /\ last.flagDown /\ failureMode = "closed"
  /\ last.responses = <<ServiceUnavailable>>

\* C5: every request the middleware has answered got exactly one answer:
\* admitted, 429 or 503; no exception left the handler.
C5_OneOutcome ==
  Answered =>
    /\ Len(last.responses) = 1
    /\ Response \in {Admitted, RateLimited, ServiceUnavailable}

\* the key generator threw under failure mode closed: 503, nothing escapes
C5_Witness ==
  /\ last.id = KeyGenThrows
  /\ failureMode = "closed"
  /\ last.responses = <<ServiceUnavailable>>

\* C6: a request whose counter operation fails at the store while the store
\* is not known unreachable is answered as the failure mode says: admitted
\* under open, 503 under closed.
C6_StoreErrorFollowsMode ==
  (Answered /\ ~last.flagDown /\ last.via = "memory") =>
    last.responses = <<IF failureMode = "open" THEN Admitted ELSE ServiceUnavailable>>

\* C7: the one request that follows a 429, issued after the reset time that
\* 429 reported, with the store answering throughout, is admitted.
C7_RetryAfterResetAdmitted ==
  (Answered /\ last.retry /\ ~last.flagDown /\ ~last.storeDown) =>
    last.responses = <<Admitted>>

\* C8: a request of an identity that has both a block entry and an allow
\* entry is denied: it is not admitted.
C8_BlockWins ==
  (Answered /\ last.listed) => Response # Admitted

\* C9: with the calls of the rule service made one after the other, a create
\* whose name a stored rule has fails with a name conflict and has written
\* nothing; a create whose name no stored rule has (also the name of a rule
\* deleted before) succeeds and the rule is stored.
C9_NameConflictThenFree ==
  lastCall.op = "create" =>
    IF lastCall.existed
    THEN lastCall.result = "NameConflict" /\ ~lastCall.wrote
    ELSE /\ lastCall.result = "ok"
         /\ ruleHash[lastCall.id].name = lastCall.name
         /\ lastCall.id \in rulesSet
         /\ nameIndex[lastCall.name] = lastCall.id

\* a name was refused, its rule was deleted and the name created again
C9_Witness ==
  /\ lastCall.op = "create" /\ lastCall.result = "ok"
  /\ lastCall.name \in conflictNames
  /\ lastCall.name \in deletedNames

\* C10: at every moment no two stored rules have the same name, concurrent
\* creates of one name included.
C10_UniqueNames ==
  \A a, b \in RuleIds :
    (a # b /\ ruleHash[a] # NoRule /\ ruleHash[b] # NoRule) =>
      ruleHash[a].name # ruleHash[b].name

\* the listing by priority that returned last
SortedListing ==
  lastCall.op = "list" /\ lastCall.opts.sortByPriority /\ lastCall.result = "ok"

C12_StopsAtFirstDenial ==
  /\ \A k \in 1..Len(served.reports) :
       served.reports[k].response # Admitted =>
         /\ Len(served.reports) = k
         /\ served.responses = <<served.reports[k].response>>
         /\ ~served.handler
         /\ served.incremented \subseteq {Layers(served.route)[j] : j \in 1..k}
  /\ \A p \in Workers : \A k \in 1..Len(chain[p].reports) :
       chain[p].reports[k].response = Admitted

\* /api/expensive denied by the router-wide limiter: 429, and the counter of
\* the route's own limiter has never been touched
C12_Witness ==
  /\ served.route = "/expensive"
  /\ Len(served.reports) = 1
  /\ served.reports[1].lim = "api"
  /\ served.reports[1].response = RateLimited
  /\ served.responses = <<RateLimited>>
  /\ \A i \in Identifiers : store["expensive"][i] = NoKey /\ memory[i] = NoKey

\* the limiters that evaluated the request served last and reported a count
Evaluated == {k \in 1..Len(served.reports) : served.reports[k].headers # NoHeaders}

\* C13: the remaining count and reset time reported for a request admitted
\* after several limiters evaluated it are those of the limiter with the
\* smallest remaining count.
C13_TightestReported ==
  (served.handler /\ Cardinality(Evaluated) >= 2) =>
    \E k \in Evaluated :
      /\ \A j \in Evaluated :
           served.reports[k].headers.remaining <= served.reports[j].headers.remaining
      /\ served.headers.remaining = served.reports[k].headers.remaining
      /\ served.headers.resetIn = served.reports[k].headers.resetIn
\* the create or update that returned last succeeded
Mutated == lastCall.op \in {"create", "update"} /\ lastCall.result = "ok"

\* C14: a create or update that succeeded has not stored a rule whose target
\* (type and pattern) is that of another enabled rule: such a rule is
\* rejected and nothing stored.
C14_NoDuplicateTarget ==
  Mutated => checkConflicts(ruleHash[lastCall.id].target) \ {lastCall.id} = {}

\* C15: a rule whose capacity is below 1 or above 1,000,000, whose window is
\* below 1 second or above 86,400 seconds, or whose target is invalid is
\* rejected by create and by update and never stored.
C15_OnlyValidStored ==
  /\ \A id \in RuleIds :
       ruleHash[id] # NoRule =>
         ruleValidationRules(ruleHash[id].target, ruleHash[id].limit)
  /\ (lastCall.op = "create"
        /\ ~ruleValidationRules(lastCall.data.target, lastCall.data.limit))
       => lastCall.result # "ok"
\* the mutations of the rule service
Mutations == {"create", "update", "delete", "enable", "disable"}

\* the mutation that returned last, and returned success
Succeeded == lastCall.op \in Mutations /\ lastCall.result = Success(lastCall.op)

\* history: the mutation that returned last got as far as logAudit
Audited == lastCall.op \in Mutations /\ lastCall.level # "none"

\* the change of the mutation that returned last is in the store
Persisted ==
  LET id == lastCall.id
  IN CASE lastCall.op = "create" ->
            /\ ruleHash[id].name = lastCall.name
            /\ id \in rulesSet /\ nameIndex[lastCall.name] = id
       [] lastCall.op = "delete" ->
            /\ ruleHash[id] = NoRule
            /\ id \notin rulesSet /\ nameIndex[lastCall.name] # id
       [] lastCall.op = "update" ->
            /\ ruleHash[id].priority = lastCall.updates.priority
            /\ priorityIndex[id] = lastCall.updates.priority
       [] OTHER -> ruleHash[id].enabled = lastCall.updates.enabled

C18_NoPartialChange ==
  SortedListing =>
    \A i, j \in 1..Len(lastCall.rules) :
      i < j => lastCall.rules[i].priority >= lastCall.rules[j].priority
\* the enable or disable that returned last succeeded
Toggled == lastCall.op \in {"enable", "disable"} /\ lastCall.result = "ok"

\* C19: enabling or disabling a rule changes it in place: the rule keeps its
\* id, name, target, limit, priority and creation time (and its entries in
\* the name index, the rule set and the priority index); only its enabled
\* flag and its update time change.
C19_ToggleInPlace ==
  Toggled =>
    LET id == lastCall.id
        was == lastCall.before
        is == ruleHash[id]
    IN /\ was # NoRule
       /\ is = [was EXCEPT !.enabled = is.enabled, !.updatedAt = is.updatedAt]
       /\ is.enabled = (IF lastCall.op = "enable" THEN "true" ELSE "false")
       /\ is.updatedAt \in was.updatedAt..now
       /\ lastCall.after = is
       /\ nameIndex[is.name] = id /\ id \in rulesSet /\ priorityIndex[id] = is.priority

\* a rule of priority 50 was disabled and, a minute later, enabled again
C19_Witness ==
  /\ Toggled /\ lastCall.op = "enable"
  /\ lastCall.before.enabled = "false"
  /\ ruleHash[lastCall.id].enabled = "true"
  /\ ruleHash[lastCall.id].priority = 50
  /\ ruleHash[lastCall.id].name \in Names
  /\ ruleHash[lastCall.id].updatedAt > lastCall.before.updatedAt
  /\ lastCall.before.updatedAt > ruleHash[lastCall.id].createdAt
\* the addresses of a request that extractClientIP can use
Usable(r) ==
  { r.forwardedFor[i] : i \in { k \in 1..Len(r.forwardedFor) :
      isValidIP(r.forwardedFor[k]) /\ ~(r.production /\ IsPrivate(r.forwardedFor[k])) } }
    \cup { a \in {r.realIP, r.cfIP, r.clientIP, r.ip} : isValidIP(a) }
    \cup { Stripped(a) : a \in { b \in {r.socket.remoteAddress, r.connection.remoteAddress} :
                                  isValidIP(Stripped(b)) } }

\* C20: resolving the identity of a request never raises an error, whatever
\* the request's headers and peer address are; it returns a usable address
\* of the request or "unknown", and "unknown" when the request has no usable
\* address.
C20_NeverFails ==
  identity # Pending =>
    /\ identity # Thrown
    /\ identity \in Usable(request) \cup {Unknown}
    /\ Usable(request) = {} => identity = Unknown

\* no header but an X-Forwarded-For without a valid address, no socket and
\* no connection: "unknown"
C20_Witness ==
  /\ identity = Unknown
  /\ request.forwardedFor = <<Text("garbage"), V4(999, 1, 1, 1)>>
  /\ ~request.socket.present /\ ~request.connection.present
  /\ Usable(request) = {}

\* the request has been resolved to an identity
Resolved == identity # Pending /\ request # NoMetadata

\* the addresses of X-Forwarded-For
Chain == request.forwardedFor

\* an address the loop over X-Forwarded-For returns when it comes to it
Candidate(ip) == isValidIP(ip) /\ ~(request.production /\ IsPrivate(ip))

C22_FirstValid ==
  Resolved /\ Len(Chain) >= 2 =>
    \A i \in 1..Len(Chain) :
      isValidIP(Chain[i]) /\ (\A j \in 1..(i - 1) : ~isValidIP(Chain[j]))
        => identity = Chain[i]

\* C22, amended: when X-Forwarded-For holds a chain of several addresses,
\* the resolver returns the first address of the chain that is a valid IP
\* address and, on production configuration, does not begin with one of the
\* private and local prefixes the resolver skips.
C22_FirstValidNotSkipped ==
  Resolved /\ Len(Chain) >= 2 =>
    \A i \in 1..Len(Chain) :
      Candidate(Chain[i]) /\ (\A j \in 1..(i - 1) : ~Candidate(Chain[j]))
        => identity = Chain[i]

\* an address out of range before a valid one: the valid one is the identity
C22_Witness ==
  /\ Resolved
  /\ Chain = <<V4(999, 1, 1, 1), V4(1, 2, 3, 4)>>
  /\ identity = V4(1, 2, 3, 4)

\* the immediate peer: the remote address of the socket
Peer == Stripped(remoteAddress(request))

\* the request as it is without the headers a client can supply to name an
\* address
WithoutForwarding ==
  [request EXCEPT !.forwardedFor = <<>>, !.realIP = Undefined,
                  !.cfIP = Undefined, !.clientIP = Undefined]

\* C23: for a request from a peer that is not a recognized trusted
\* intermediary, the resolved identity is the same whatever forwarding
\* headers the client supplies: it is the identity of the same request
\* without these headers.
C23_UntrustedPeerHeadersIgnored ==
  Resolved /\ isValidIP(Peer) /\ ~trustProxy(Peer) =>
    identity = extractClientIP(WithoutForwarding)

\* an address in a private, loopback or link-local range, among the addresses
\* used: 10/8, 172.16/12, 192.168/16, 127/8, 169.254/16, ::1, fc00::/7 and
\* fe80::/10
InLocalRange(ip) ==
  CASE ip.kind = "v4" ->
         /\ isValidIP(ip)
         /\ \/ ip.parts[1] \in {10, 127}
            \/ ip.parts[1] = 172 /\ ip.parts[2] \in 16..31
            \/ ip.parts[1] = 192 /\ ip.parts[2] = 168
            \/ ip.parts[1] = 169 /\ ip.parts[2] = 254
    [] ip.kind = "v6" ->
         \/ ip.text = <<"", "", "1">>
         \/ ip.text[1] \in {"fc00", "fd00", "fd12", "fe80"}
    [] OTHER -> FALSE

\* C24: on production configuration an address in a private, loopback or
\* link-local range is never selected from a forwarding chain, while such an
\* address is still accepted when no forwarding chain is present.
C24_LocalNeverFromChain ==
  Resolved /\ request.production =>
    /\ \A i \in 1..Len(Chain) : InLocalRange(Chain[i]) => identity # Chain[i]
    /\ Chain = <<>> /\ extractClientIP(request) # Unknown /\ InLocalRange(request.ip)
         /\ ~isValidIP(request.realIP) /\ ~isValidIP(request.cfIP)
         /\ ~isValidIP(request.clientIP)
       => identity = request.ip

\* the sources after the forwarding chain, in the order of the claim: the
\* three secondary headers, then the peer address (req.ip, then the remote
\* address of the socket)
Sources ==
  <<request.realIP, request.cfIP, request.clientIP, request.ip, Peer>>

\* C25: when the forwarding chain yields no usable address, the resolver
\* falls back in a fixed order: X-Real-IP, CF-Connecting-IP, X-Client-IP,
\* the peer address, then "unknown"; an earlier source with a valid address
\* always wins over a later one.
C25_FallbackOrder ==
  Resolved /\ (\A i \in 1..Len(Chain) : ~Candidate(Chain[i])) =>
    /\ \A k \in 1..Len(Sources) :
         isValidIP(Sources[k]) /\ (\A j \in 1..(k - 1) : ~isValidIP(Sources[j]))
           => identity = Sources[k]
    /\ (\A k \in 1..Len(Sources) : ~isValidIP(Sources[k])) => identity = Unknown

\* a chain without a usable address, no valid X-Real-IP, and valid
\* CF-Connecting-IP, X-Client-IP, req.ip and socket address: CF-Connecting-IP
C25_Witness ==
  /\ Resolved
  /\ Chain = <<Text("garbage")>>
  /\ request.realIP = Text("garbage")
  /\ request.cfIP = V4(203, 0, 113, 3)
  /\ request.clientIP = V4(203, 0, 113, 5)
  /\ request.ip = V4(192, 168, 1, 1)
  /\ request.socket = Socket(Mapped(V4(9, 9, 9, 9)))
  /\ identity = V4(203, 0, 113, 3)

\* the store has just answered the consume of a request
JustConsumed == last.id \in Identifiers /\ last.via = "redis"

\* the consumes of the key of the last request in the window now is in, and
\* in the window before it
CurrentWindowCount ==
  Len(SelectSeq(consumes[last.lim][last.id],
                LAMBDA e : e.at >= now - (now % cfg[last.lim].duration)))
PreviousWindowCount ==
  Len(consumes[last.lim][last.id]) - CurrentWindowCount

\* C26: a counted request is admitted exactly when the sliding-window
\* estimate previousWindowCount * overlapFraction + currentWindowCount,
\* computed after the request's own increment, is at most the capacity
\* (overlapFraction = (window - elapsed) / window; both sides are multiplied
\* by the window); a denied request's increment stays counted.
C26_SlidingEstimate ==
  JustConsumed =>
    LET c == cfg[last.lim]
        elapsed == now % c.duration
    IN /\ Response = Admitted <=>
            PreviousWindowCount * (c.duration - elapsed)
              + CurrentWindowCount * c.duration <= c.points * c.duration
       /\ Response = RateLimited => store[last.lim][last.id].count > c.points

\* C27: for one identity, the number of requests admitted within any
\* interval of one window length never exceeds the capacity: here the
\* interval that ends now.
C27_NoEdgeBurst ==
  \A l \in Limiters, i \in Identifiers :
    Len(SelectSeq(consumes[l][i],
                  LAMBDA e : e.admitted /\ e.at > now - cfg[l].duration)) <= cfg[l].points

\* the consume of the last request got no answer within the command timeout
\* from a store that is reachable and known to be
TimedOut == Answered /\ last.via = "memory" /\ ~last.storeDown /\ ~last.flagDown

\* C28: a request whose round trip to the counter store exceeds the timeout
\* is decided by the failure-mode policy, as for an unreachable store:
\* admitted under open, 503 under closed.
C28_TimeoutFollowsMode ==
  TimedOut =>
    last.responses = <<IF failureMode = "open" THEN Admitted ELSE ServiceUnavailable>>

\* the last request was admitted by a limiter, which reported its numbers
AdmittedWithHeaders ==
  Answered /\ last.responses = <<Admitted>> /\ last.headers # NoHeaders

\* the requests counted for the identity of the last request in the current
\* window, by the counter that answered it: the key of its limiter in Redis,
\* or the key of the identity in the memory limiter
CountedInWindow ==
  IF last.via = "redis" THEN store[last.lim][last.id].count ELSE memory[last.id].count

\* C29: on every admitted response the reported remaining count is the
\* capacity of the limiter minus the number of requests counted for the
\* identity in the current window, floored at 0, and never negative.
C29_RemainingIsCapacityMinusCount ==
  AdmittedWithHeaders =>
    /\ last.headers.remaining = Max(0, cfg[last.lim].points - CountedInWindow)
    /\ last.headers.remaining >= 0

\* C30: X-RateLimit-RetryAfter is present only on the responses to denied
\* requests: no admitted request's response carries it.
C30_RetryAfterOnlyOnDenial ==
  Answered /\ last.responses = <<Admitted>> => last.headers.retryAfter = -1

\* C31: whenever no create, update, delete, enable or disable is in progress
\* the rule indexes agree: an id is in rl:rules exactly when it is in
\* rl:rules:priority and its hash exists, its score is the priority of the
\* hash, and every name-index entry points to an existing rule of that name.
C31_IndexesAgree ==
  NoCallInProgress =>
    /\ \A id \in RuleIds :
         /\ id \in rulesSet <=> priorityIndex[id] # -1
         /\ id \in rulesSet <=> ruleHash[id] # NoRule
         /\ id \in rulesSet => priorityIndex[id] = ruleHash[id].priority
    /\ \A n \in Names :
         nameIndex[n] # 0 =>
           /\ ruleHash[nameIndex[n]] # NoRule
           /\ ruleHash[nameIndex[n]].name = n

(***************************************************************************)
(* The store connection: connectRedis, closeRedis and the events of the    *)
(* ioredis clients they create.  Every client keeps the handlers that      *)
(* connectRedis registered on it, and every handler writes the one         *)
(* module-level isConnected.                                               *)
(***************************************************************************)
\* the rest of the program, which the connection module does not touch
ConnFrame ==
  /\ UNCHANGED <<now, failureMode, storeUp, cfg, rateLimiters, memoryLimiter,
                 store, blocked, memory, req, last, win, lastDeny>>
  /\ UNCHANGED <<listVars, ruleVars, chainVars, windowVars, resolverVars, authVars,
                 retryVars, shutdownVars>>

\* new Redis(getRedisOptions()) unless a connected client exists; the
\* client that was current keeps its handlers and is not disconnected
ConnectRedis ==
  /\ \E c \in ClientIds : clients[c] = "none"
  /\ IF redisClient # 0 /\ isConnected
       THEN UNCHANGED <<isConnected, connVars>>
       ELSE LET c == CHOOSE k \in ClientIds :
                       clients[k] = "none" /\ \A j \in 1..(k - 1) : clients[j] # "none"
            IN  /\ redisClient' = c
                /\ clients' = [clients EXCEPT ![c] = "connecting"]
                /\ UNCHANGED <<isConnected, readySince, quitting>>
  /\ ConnFrame

\* redisClient.on('ready')
ClientReady(c) ==
  /\ clients[c] = "connecting"
  /\ clients' = [clients EXCEPT ![c] = "ready"]
  /\ isConnected' = TRUE
  /\ readySince' = [readySince EXCEPT ![c] = TRUE]
  /\ UNCHANGED <<redisClient, quitting>>
  /\ ConnFrame

\* redisClient.on('error')
ClientError(c) ==
  /\ clients[c] \in {"connecting", "ready", "reconnecting"}
  /\ isConnected' = FALSE
  /\ readySince' = [readySince EXCEPT ![c] = FALSE]
  /\ UNCHANGED <<redisClient, clients, quitting>>
  /\ ConnFrame

\* redisClient.on('close'): the socket closed; ioredis reconnects unless
\* the client was quit
ClientClose(c) ==
  /\ clients[c] \in {"connecting", "ready", "closing"}
  /\ clients' = [clients EXCEPT
                   ![c] = IF clients[c] = "closing" THEN "closed" ELSE "reconnecting"]
  /\ isConnected' = FALSE
  /\ readySince' = [readySince EXCEPT ![c] = FALSE]
  /\ UNCHANGED <<redisClient, quitting>>
  /\ ConnFrame

\* redisClient.on('reconnecting'): the retry strategy returned a delay
ClientReconnecting(c) ==
  /\ clients[c] = "reconnecting"
  /\ clients' = [clients EXCEPT ![c] = "connecting"]
  /\ UNCHANGED <<isConnected, redisClient, readySince, quitting>>
  /\ ConnFrame

\* redisClient.on('end'): after a quit, or when the retry strategy gave up
ClientEnd(c) ==
  /\ clients[c] \in {"closed", "reconnecting"}
  /\ clients' = [clients EXCEPT ![c] = "end"]
  /\ isConnected' = FALSE
  /\ readySince' = [readySince EXCEPT ![c] = FALSE]
  /\ UNCHANGED <<redisClient, quitting>>
  /\ ConnFrame

\* redisClient.quit(): the clients after it
Quit(c) ==
  [clients EXCEPT ![c] = IF clients[c] \in {"closed", "end"} THEN clients[c] ELSE "closing"]

\* closeRedis up to its await: redisClient.quit()
CloseRedis ==
  /\ redisClient # 0
  /\ redisClient \notin quitting
  /\ quitting' = quitting \cup {redisClient}
  /\ clients' = Quit(redisClient)
  /\ UNCHANGED <<isConnected, redisClient, readySince>>
  /\ ConnFrame

\* closeRedis after quit() settled: finally { redisClient = null; isConnected = false }
CloseRedisFinally(c) ==
  /\ c \in quitting
  /\ quitting' = quitting \ {c}
  /\ redisClient' = 0
  /\ isConnected' = FALSE
  /\ UNCHANGED <<clients, readySince>>
  /\ ConnFrame

ClientEvent(c) ==
  ClientReady(c) \/ ClientError(c) \/ ClientClose(c) \/ ClientEnd(c)

NextConnection ==
  \/ ConnectRedis
  \/ CloseRedis
  \/ \E c \in ClientIds : CloseRedisFinally(c)
  \/ \E c \in ClientIds : ClientReady(c)
  \/ \E c \in ClientIds : ClientError(c)
  \/ \E c \in ClientIds : ClientClose(c)
  \/ \E c \in ClientIds : ClientReconnecting(c)
  \/ \E c \in ClientIds : ClientEnd(c)

SpecConnection == InitQuiet /\ [][NextConnection]_vars

\* C32: the connection flag describes the current client: isRedisConnected()
\* is true only if the client getRedisClient() returns has emitted 'ready'
\* and no 'error', 'close' or 'end' since, and an event of a client that was
\* replaced or closed never changes the flag.
C32_FlagDescribesCurrentClient ==
  [][/\ isConnected' => (redisClient' # 0 /\ readySince'[redisClient'])
     /\ \A c \in ClientIds :
          (c # redisClient /\ ClientEvent(c)) => UNCHANGED isConnected]_vars

(***************************************************************************)
(* The presets: limiters of different key prefixes serving one client      *)
(* inside one window, the store answering or failing.                      *)
(***************************************************************************)
\* a request of the client comes to the middleware of a preset
PresetRequest(p, l) ==
  /\ Begin(p, l, "ip1")
  /\ UNCHANGED <<chainVars, windowVars>>

NextPresets ==
  \/ \E p \in Workers, l \in Limiters : PresetRequest(p, l)
  \/ \E p \in Workers : Consume(p)
  \/ StoreDown
  \/ StoreRecover

SpecPresets == InitRouter /\ [][NextPresets]_vars

\* history: the requests the limiter admitted for the key
AdmittedBy(l, id) == Len(SelectSeq(consumes[l][id], LAMBDA e : e.admitted))

\* C33: limiters of different key prefixes count independently whatever the
\* state of the store: a limiter answers 429 only when it has itself admitted
\* its configured number of points for the key in the window.
C33_IndependentCounters ==
  (Answered /\ last.responses = <<RateLimited>>) =>
    AdmittedBy(last.lim, last.id) >= cfg[last.lim].points

(***************************************************************************)
(* The admin routes: login, logout, refresh and a protected route, behind  *)
(* the authenticate middleware and the error handler.  A message is the    *)
(* sequence of its words, so that String.includes is a search.             *)
(***************************************************************************)
AuthFrame ==
  UNCHANGED <<limiterVars, listVars, ruleVars, chainVars, windowVars,
              resolverVars, connVars, retryVars, shutdownVars>>

\* what the Authorization header holds
NoHeader == [kind |-> "none", jti |-> "none"]
NotBearer == [kind |-> "basic", jti |-> "none"]
Garbage == [kind |-> "garbage", jti |-> "none"]
Bearer(j) == [kind |-> "bearer", jti |-> j]
Credentials == {NoHeader, NotBearer, Garbage} \cup {Bearer(j) : j \in Jtis}

\* message.includes(word)
Includes(message, word) == \E i \in 1..Len(message) : message[i] = word

\* new Error(message), and the ApiError createError builds: it carries
\* statusCode, and no property named status
Error(message) == [api |-> FALSE, code |-> "none", statusCode |-> 0, status |-> 0, message |-> message]
ApiError(code, message) ==
  [api |-> TRUE, code |-> code, statusCode |-> createError(code).status, status |-> 0,
   message |-> message]
NoError == Error(<<>>)

\* jwt.js: extractTokenFromHeader
extractTokenFromHeader(cred) == IF cred.kind \in {"none", "basic"} THEN NoHeader ELSE cred

\* jwt.js: verifyAccessToken: the error it throws, NoError when it returns
verifyAccessToken(token) ==
  IF token.kind = "garbage" THEN Error(<<"Invalid", "token">>)
  ELSE IF token.jti \in expired THEN Error(<<"Token", "has", "expired">>)
  ELSE NoError

\* authenticate's try block: the error thrown, NoError when it reaches next()
authenticateTry(cred) ==
  LET token == extractTokenFromHeader(cred) IN
  IF token = NoHeader
  THEN ApiError("UNAUTHORIZED", <<"No", "authentication", "token", "provided">>)
  ELSE IF verifyAccessToken(token) # NoError THEN verifyAccessToken(token)
  ELSE IF ~isConnected THEN NoError
  ELSE IF ~storeUp THEN Error(<<"Command", "timed", "out">>)
  ELSE IF token.jti \in blacklist
  THEN ApiError("UNAUTHORIZED", <<"Token", "has", "been", "revoked">>)
  ELSE NoError

\* authenticate's catch block: the error handed to next
authenticateCatch(error) ==
  IF error.status = 401 THEN error
  ELSE IF Includes(error.message, "expired")
  THEN ApiError("TOKEN_EXPIRED", <<"Authentication", "token", "has", "expired">>)
  ELSE IF Includes(error.message, "invalid") \/ Includes(error.message, "malformed")
  THEN ApiError("UNAUTHORIZED", <<"Invalid", "authentication", "token">>)
  ELSE ApiError("UNAUTHORIZED", <<"Authentication", "failed">>)

\* errorHandler.js: the status errorHandler answers an error with
errorHandler(err) == IF err.api THEN err.statusCode ELSE ErrorCodes["INTERNAL_ERROR"]

AdminAnswered(route, kind, status, invoked, by) ==
  [route |-> route, credential |-> kind, status |-> status, invoked |-> invoked, by |-> by]

\* how the token presented is seen from outside
CredentialKind(cred) ==
  IF cred.kind # "bearer" THEN cred.kind
  ELSE IF cred.jti \in expired THEN "expired"
  ELSE IF cred.jti \in blacklist THEN "revoked"
  ELSE "valid"

\* a request to a route behind authenticate: the middleware
Authenticate(p, route, cred) ==
  /\ session[p].pc = "idle"
  /\ \A q \in Workers : q < p => session[q].pc # "idle"
  /\ LET thrown == authenticateTry(cred) IN
     IF thrown = NoError
     THEN /\ session' = [session EXCEPT ![p] =
                           [pc |-> "handler", route |-> route, jti |-> cred.jti,
                            refresh |-> 0, after |-> cred.jti \in loggedOut]]
          /\ UNCHANGED adminAnswer
     ELSE /\ adminAnswer' = AdminAnswered(route, CredentialKind(cred),
                                errorHandler(authenticateCatch(thrown)), FALSE,
                                "authenticate")
          /\ UNCHANGED session
  /\ UNCHANGED <<blacklist, refreshTokens, nextRefresh, expired, loggedOut, redeemed>>
  /\ AuthFrame

\* GET /me
Me(p) ==
  /\ session[p].pc = "handler" /\ session[p].route = "/me"
  /\ adminAnswer' = AdminAnswered("/me", "valid", 200, TRUE, "handler")
  /\ session' = [session EXCEPT ![p] = IdleSession]
  /\ UNCHANGED <<blacklist, refreshTokens, nextRefresh, expired, loggedOut, redeemed>>
  /\ AuthFrame

\* a Redis command of the token helpers takes effect: the helper found the
\* flag set, and the store executed the command
Stored == isConnected /\ storeUp

\* POST /logout up to the end of blacklistToken(jti, expirySeconds); a token
\* that has meanwhile expired has expirySeconds 0, which SET ... EX refuses
LogoutBlacklist(p) ==
  /\ session[p].pc = "handler" /\ session[p].route = "/logout"
  /\ blacklist' = IF Stored /\ session[p].jti \notin expired
                  THEN blacklist \cup {session[p].jti} ELSE blacklist
  /\ session' = [session EXCEPT ![p].pc = "blacklisted"]
  /\ UNCHANGED <<refreshTokens, nextRefresh, expired, adminAnswer, loggedOut, redeemed>>
  /\ AuthFrame

\* the rest of POST /logout: deleteRefreshToken when the body names a
\* refresh token (0: none), then the adminAnswer, whatever blacklistToken returned
LogoutAnswer(p, rt) ==
  /\ session[p].pc = "blacklisted"
  /\ refreshTokens' = IF rt # 0 /\ Stored THEN refreshTokens \ {rt} ELSE refreshTokens
  /\ adminAnswer' = AdminAnswered("/logout", "valid", 200, TRUE, "handler")
  /\ loggedOut' = loggedOut \cup {session[p].jti}
  /\ session' = [session EXCEPT ![p] = IdleSession]
  /\ UNCHANGED <<blacklist, nextRefresh, expired, redeemed>>
  /\ AuthFrame

\* the refresh tokens not yet handed out are enough for the requests that
\* will each take one
TokensLeft ==
  nextRefresh + Cardinality({q \in Workers : session[q].pc \in {"verified", "deleted"}})
    <= MaxRefresh

\* POST /login (the rate limiter has admitted it): validation, the user, the
\* password, storeRefreshToken and the adminAnswer
Login(p, good) ==
  /\ session[p].pc = "idle"
  /\ \A q \in Workers : q < p => session[q].pc # "idle"
  /\ TokensLeft
  /\ IF good
     THEN /\ refreshTokens' = IF Stored THEN refreshTokens \cup {nextRefresh}
                              ELSE refreshTokens
          /\ nextRefresh' = nextRefresh + 1
          /\ adminAnswer' = AdminAnswered("/login", "none", 200, TRUE, "handler")
     ELSE /\ adminAnswer' = AdminAnswered("/login", "none", ErrorCodes["UNAUTHORIZED"], TRUE, "handler")
          /\ UNCHANGED <<refreshTokens, nextRefresh>>
  /\ UNCHANGED <<blacklist, expired, session, loggedOut, redeemed>>
  /\ AuthFrame

\* routes/auth.js: the loop over verifyRefreshToken
verifyRefreshToken(rt) == Stored /\ rt \in refreshTokens

\* POST /refresh (the rate limiter has admitted it) up to the end of the
\* loop over verifyRefreshToken; 0 is an empty refreshToken
RefreshVerify(p, rt) ==
  /\ session[p].pc = "idle"
  /\ \A q \in Workers : q < p => session[q].pc # "idle"
  /\ TokensLeft
  /\ rt # 0 => redeemed[rt] < 2
  /\ IF rt = 0
     THEN /\ adminAnswer' = AdminAnswered("/refresh", "none", ErrorCodes["VALIDATION_ERROR"], TRUE, "handler")
          /\ UNCHANGED session
     ELSE IF verifyRefreshToken(rt)
     THEN /\ session' = [session EXCEPT ![p] =
                           [IdleSession EXCEPT !.pc = "verified", !.route = "/refresh",
                                               !.refresh = rt]]
          /\ UNCHANGED adminAnswer
     ELSE /\ adminAnswer' = AdminAnswered("/refresh", "none", ErrorCodes["UNAUTHORIZED"], TRUE, "handler")
          /\ UNCHANGED session
  /\ UNCHANGED <<blacklist, refreshTokens, nextRefresh, expired, loggedOut, redeemed>>
  /\ AuthFrame

\* POST /refresh: await deleteRefreshToken(validUser.id, refreshToken)
RefreshDelete(p) ==
  /\ session[p].pc = "verified"
  /\ refreshTokens' = IF Stored THEN refreshTokens \ {session[p].refresh} ELSE refreshTokens
  /\ session' = [session EXCEPT ![p].pc = "deleted"]
  /\ UNCHANGED <<blacklist, nextRefresh, expired, adminAnswer, loggedOut, redeemed>>
  /\ AuthFrame

\* POST /refresh: await storeRefreshToken(validUser.id, newRefreshToken, ...)
\* and the adminAnswer with the new tokens
RefreshStore(p) ==
  /\ session[p].pc = "deleted"
  /\ refreshTokens' = IF Stored THEN refreshTokens \cup {nextRefresh} ELSE refreshTokens
  /\ nextRefresh' = nextRefresh + 1
  /\ redeemed' = [redeemed EXCEPT ![session[p].refresh] = @ + 1]
  /\ adminAnswer' = AdminAnswered("/refresh", "none", 200, TRUE, "handler")
  /\ session' = [session EXCEPT ![p] = IdleSession]
  /\ UNCHANGED <<blacklist, expired, loggedOut>>
  /\ AuthFrame

\* the exp of an access token passes; Redis drops its blacklist key, which
\* was set to expire with the token
TokenExpires(j) ==
  /\ j \notin expired
  /\ \A p \in Workers : session[p].pc = "idle"
  /\ expired' = expired \cup {j}
  /\ blacklist' = blacklist \ {j}
  /\ UNCHANGED <<refreshTokens, nextRefresh, session, adminAnswer, loggedOut, redeemed>>
  /\ AuthFrame

NextAuth ==
  \/ \E p \in Workers, good \in BOOLEAN : Login(p, good)
  \/ \E p \in Workers, route \in {"/me", "/logout"}, cred \in Credentials :
       Authenticate(p, route, cred)
  \/ \E p \in Workers : Me(p)
  \/ \E p \in Workers : LogoutBlacklist(p)
  \/ \E p \in Workers, rt \in RefreshIds \cup {0} : LogoutAnswer(p, rt)
  \/ \E p \in Workers, rt \in RefreshIds \cup {0} : RefreshVerify(p, rt)
  \/ \E p \in Workers : RefreshDelete(p)
  \/ \E p \in Workers : RefreshStore(p)
  \/ \E j \in Jtis : TokenExpires(j)
  \/ StoreDown
  \/ StoreRecover
  \/ OnClose
  \/ OnReady

SpecAuth == InitQuiet /\ [][NextAuth]_vars

\* C34: a refresh token is redeemed at most once: of the refresh requests
\* presenting one refresh token, sequential or concurrent, at most one is
\* answered with new tokens.
C34_RedeemedAtMostOnce ==
  \A rt \in RefreshIds : redeemed[rt] <= 1

\* C35: once logout has answered success for an access token, no later
\* request presenting that token passes authentication while the token has
\* not expired.
C35_RejectedAfterLogout ==
  \A p \in Workers : session[p].pc \in {"handler", "blacklisted"} => ~session[p].after

\* C36: a request that authenticate rejects (no token, a malformed, an
\* expired or a revoked one) is answered 401 and its handler is not invoked.
C36_RejectedWith401 ==
  adminAnswer.by = "authenticate" => (adminAnswer.status = 401 /\ ~adminAnswer.invoked)

(***************************************************************************)
(* Reconnection: the retry strategy ioredis calls after each lost          *)
(* connection, with the number of the attempt.  A variable of the          *)
(* environment that is unset (or 0) is 0 here.                             *)
(***************************************************************************)
\* parseInt(process.env.X, 10) || default
Setting(value, default) == IF value = 0 THEN default ELSE value

maxAttempts(e) == Setting(e.maxRetries, DefaultMaxRetries)
baseDelay(e) == Setting(e.retryDelay, DefaultRetryDelay)
maxDelay(e) == Setting(e.maxRetryDelay, DefaultMaxRetryDelay)

getReconnectionDelay_uncapped(e, attempt) ==
  IF attempt > maxAttempts(e) THEN Null
  ELSE attempt * baseDelay(e) * 2 ^ (attempt - 1)

\* part_004: getReconnectionDelay (Null is null)
getReconnectionDelay(e, attempt) ==
  IF attempt > maxAttempts(e) THEN Null
  ELSE Min(attempt * baseDelay(e) * 2 ^ (attempt - 1), maxDelay(e))

\* config/redis.js: retryStrategy, of fixed settings
retryStrategy(times) == IF times > 10 THEN Null ELSE Min(times * 200, 5000)

\* the strategy of the module in use, its last attempt and its largest delay
Strategy(e, times) ==
  IF e.module = "config/redis.js" THEN retryStrategy(times)
  ELSE getReconnectionDelay(e, times)
LastAttempt(e) == IF e.module = "config/redis.js" THEN 10 ELSE maxAttempts(e)
LargestDelay(e) == IF e.module = "config/redis.js" THEN 5000 ELSE maxDelay(e)

\* the environments the process is started in
RetryEnvs ==
  {[module |-> "config/redis.js", maxRetries |-> 0, retryDelay |-> 0, maxRetryDelay |-> 0]}
  \cup [module : {"config"}, maxRetries : {0, SomeRetries}, retryDelay : {0, 100, 1000},
        maxRetryDelay : {0, 500, 5000}]

\* ioredis lost the connection once more and asks the strategy; after a
\* null it ends the client and asks no more
RetryStrategy ==
  /\ retry.attempts = 0 \/ retry.delay # Null
  /\ retry' = [attempts |-> retry.attempts + 1,
               delay |-> Strategy(env, retry.attempts + 1),
               previous |-> retry.delay]
  /\ UNCHANGED <<env, limiterVars, listVars, ruleVars, chainVars, windowVars,
                 resolverVars, connVars, authVars, shutdownVars>>

\* the client is ready again: ioredis counts the attempts from 0
Reconnected ==
  /\ retry.attempts > 0 /\ retry.delay # Null
  /\ retry' = NoRetry
  /\ UNCHANGED <<env, limiterVars, listVars, ruleVars, chainVars, windowVars,
                 resolverVars, connVars, authVars, shutdownVars>>

InitReconnect ==
  /\ InitCounters /\ InitConnected /\ InitAuth /\ InitShutdown
  /\ InitLists /\ InitRules /\ InitChain /\ InitResolver
  /\ failureMode = "closed"
  /\ cfg = [l \in Limiters |-> [points |-> MaxPoints, duration |-> 60, blockDuration |-> 0]]
  /\ env \in RetryEnvs
  /\ retry = NoRetry

NextReconnect == RetryStrategy \/ Reconnected

SpecReconnect == InitReconnect /\ [][NextReconnect]_vars

\* C37: reconnection is bounded: for the attempts 1 to the maximum the
\* strategy returns a delay that is at most the configured maximum delay and
\* not below the delay of the attempt before, and for an attempt beyond the
\* maximum it returns null.
C37_BoundedReconnection ==
  /\ retry.attempts \in 1..LastAttempt(env) =>
       /\ retry.delay # Null
       /\ retry.delay <= LargestDelay(env)
       /\ retry.attempts > 1 => retry.delay >= retry.previous
  /\ retry.attempts > LastAttempt(env) => retry.delay = Null

\* the delays grew up to the maximum delay, then the strategy stopped
C37_Witness ==
  /\ env.module = "config"
  /\ retry.attempts = maxAttempts(env) + 1
  /\ retry.delay = Null
  /\ retry.previous = maxDelay(env)
  /\ baseDelay(env) < maxDelay(env)

(***************************************************************************)
(* Shutdown: SIGTERM and SIGINT, the draining of the HTTP server, the      *)
(* closing of the store connection and the forced exit.  Nothing happens   *)
(* in a process that has exited.                                           *)
(***************************************************************************)
ShutdownFrame ==
  /\ UNCHANGED <<now, failureMode, storeUp, cfg, rateLimiters, memoryLimiter,
                 store, blocked, memory, req, last, win, lastDeny>>
  /\ UNCHANGED <<listVars, ruleVars, chainVars, windowVars, resolverVars, authVars,
                 retryVars>>

\* setTimeout(..., 10000), in the seconds of the clock
ForceSeconds == ForceShutdownMs \div 1000

AlreadyShuttingDown_never == FALSE

\* if (isShuttingDown) return
AlreadyShuttingDown == isShuttingDown

\* server.on('connection'): a client connects
OpenConnection ==
  /\ exitCode = Null
  /\ server = "listening"
  /\ activeConnections < MaxConnections
  /\ activeConnections' = activeConnections + 1
  /\ UNCHANGED <<isShuttingDown, server, sinceSignal, exitCode, signals, shutdowns>>
  /\ UNCHANGED <<isConnected, connVars>>
  /\ ShutdownFrame

\* socket.on('close'): a connection ends, by the client or after socket.end()
SocketClose ==
  /\ exitCode = Null
  /\ activeConnections > 0
  /\ activeConnections' = activeConnections - 1
  /\ UNCHANGED <<isShuttingDown, server, sinceSignal, exitCode, signals, shutdowns>>
  /\ UNCHANGED <<isConnected, connVars>>
  /\ ShutdownFrame

\* process.on('SIGTERM' / 'SIGINT'): shutdown(signal) up to the end of its
\* synchronous part: server.close, socket.end, the two timers
Signal(sig) ==
  /\ exitCode = Null
  /\ signals < MaxSignals
  /\ signals' = signals + 1
  /\ IF AlreadyShuttingDown
     THEN UNCHANGED <<isShuttingDown, server, sinceSignal, shutdowns>>
     ELSE /\ isShuttingDown' = TRUE
          /\ server' = "closing"
          /\ sinceSignal' = 0
          /\ shutdowns' = shutdowns + 1
  /\ UNCHANGED <<activeConnections, exitCode>>
  /\ UNCHANGED <<isConnected, connVars>>
  /\ ShutdownFrame

\* the callback of server.close, once no connection is left, up to the
\* await in closeRedis; with no client closeRedis returns and the process
\* exits
ServerClosed ==
  /\ exitCode = Null
  /\ server = "closing" /\ activeConnections = 0
  /\ server' = "closed"
  /\ IF redisClient = 0
     THEN /\ exitCode' = 0
          /\ UNCHANGED connVars
     ELSE /\ quitting' = quitting \cup {redisClient}
          /\ clients' = Quit(redisClient)
          /\ UNCHANGED <<exitCode, redisClient, readySince>>
  /\ UNCHANGED <<isShuttingDown, activeConnections, sinceSignal, signals, shutdowns>>
  /\ UNCHANGED isConnected
  /\ ShutdownFrame

\* quit() settled and closeRedis returned: process.exit(0)
StoreClosed(c) ==
  /\ exitCode = Null
  /\ server = "closed" /\ c \in quitting
  /\ quitting' = quitting \ {c}
  /\ redisClient' = 0
  /\ isConnected' = FALSE
  /\ exitCode' = 0
  /\ UNCHANGED <<clients, readySince>>
  /\ UNCHANGED <<isShuttingDown, activeConnections, server, sinceSignal, signals, shutdowns>>
  /\ ShutdownFrame

\* config/redis.js: quit() rejected and closeRedis threw: the callback ends
\* in an unhandled rejection, on which Node exits with code 1 or goes on,
\* by its version and flags
QuitRejected(c) ==
  /\ exitCode = Null
  /\ server = "closed" /\ c \in quitting
  /\ quitting' = quitting \ {c}
  /\ exitCode' \in {Null, 1}
  /\ UNCHANGED <<isConnected, redisClient, clients, readySince>>
  /\ UNCHANGED <<isShuttingDown, activeConnections, server, sinceSignal, signals, shutdowns>>
  /\ ShutdownFrame

\* time passes, up to the time the forced shutdown is due
ShutdownTick ==
  /\ exitCode = Null
  /\ isShuttingDown /\ sinceSignal < ForceSeconds
  /\ sinceSignal' = Min(sinceSignal + ShutdownStep, ForceSeconds)
  /\ UNCHANGED <<isShuttingDown, activeConnections, server, exitCode, signals, shutdowns>>
  /\ UNCHANGED <<isConnected, connVars>>
  /\ ShutdownFrame

\* the timer of the forced shutdown: socket.destroy(), process.exit(1)
ForceExit ==
  /\ exitCode = Null
  /\ isShuttingDown /\ sinceSignal = ForceSeconds
  /\ activeConnections' = 0
  /\ exitCode' = 1
  /\ UNCHANGED <<isShuttingDown, server, sinceSignal, signals, shutdowns>>
  /\ UNCHANGED <<isConnected, connVars>>
  /\ ShutdownFrame

NextShutdown ==
  \/ OpenConnection
  \/ SocketClose
  \/ \E sig \in {"SIGTERM", "SIGINT"} : Signal(sig)
  \/ ServerClosed
  \/ \E c \in ClientIds : StoreClosed(c)
  \/ \E c \in ClientIds : QuitRejected(c)
  \/ ShutdownTick
  \/ ForceExit

SpecShutdown == InitQuiet /\ [][NextShutdown]_vars

\* the event loop runs a timer that is due, and time passes
SpecShutdownFair ==
  SpecShutdown /\ WF_vars(ShutdownTick) /\ WF_vars(ForceExit)

\* exit code 0 only with the server and the store connection closed, exit
\* code 1 within 10 seconds of the first signal, one shutdown at most
ExitsAsIntended ==
  /\ exitCode = 0 => (server = "closed" /\ redisClient = 0 /\ quitting = {})
  /\ exitCode = 1 => sinceSignal <= 10
  /\ shutdowns <= 1

\* C38: after a SIGTERM or SIGINT the process always exits: with code 0
\* once the HTTP server and the store connection have closed, otherwise with
\* code 1 no later than 10 seconds after the first signal; a further signal
\* during shutdown starts no second shutdown.
C38_AlwaysExits ==
  /\ []ExitsAsIntended
  /\ isShuttingDown ~> exitCode # Null

\* a second signal came during shutdown, and the process exited with 0
C38_Witness ==
  /\ signals = 2 /\ shutdowns = 1
  /\ sinceSignal > 0
  /\ exitCode = 0

\* the step answers a request for which getClientIdentifier returned null
AnswersNoIdentifier == last'.id = NoIdentifier /\ last' # last

\* no limiter is created and no counter or block list is touched
CountersUntouched == UNCHANGED <<store, memory, blocked, rateLimiters, memoryLimiter>>

\* C39: a request for which no identifier can be determined is admitted, and
\* no counter is read or incremented for it.
C39_NoIdentifierAdmitted ==
  [][AnswersNoIdentifier =>
       (last'.responses = <<Admitted>> /\ CountersUntouched)]_vars

\* C39, amended: such a request is admitted, except that it is answered 503
\* when the store is flagged disconnected in failure mode closed; either way
\* no counter is read or incremented for it.
C39_NoIdentifierAdmittedUnlessClosed ==
  [][AnswersNoIdentifier =>
       /\ last'.responses = <<IF ~isConnected /\ failureMode = "closed"
                               THEN ServiceUnavailable ELSE Admitted>>
       /\ CountersUntouched]_vars

\* a request without identifier was admitted while counters of clients stand
C39_Witness ==
  /\ last.id = NoIdentifier
  /\ last.responses = <<Admitted>>
  /\ \E l \in Limiters, i \in Identifiers : store[l][i].count > 0

====
